---------------------------- MODULE Spec2Model ----------------------------
(***************************************************************************)
(* Model of the BlueOS extensions repository resolver:                     *)
(*   extension/extension.py  Extension (inflate, __process_tag, ...)       *)
(*   docker/registry.py      DockerRegistry (token check, V2 calls)        *)
(*   docker/auth.py          DockerAuthAPI.get_token                       *)
(*   docker/models/auth.py   AuthToken                                     *)
(*   docker/hub.py           DockerHub                                     *)
(*   docker/image_ref.py     DockerImageRef                                *)
(*   utils.py                valid_semver                                  *)
(*                                                                         *)
(* Text (tag names, architectures) is a sequence of one-character strings, *)
(* so that prefix, substring and parsing are computed, not assumed.        *)
(* One step of the model is one run of a coroutine between two network     *)
(* awaits: asyncio only switches tasks at an await that really suspends.   *)
(***************************************************************************)
EXTENDS Naturals, Integers, Sequences, FiniteSets, TLC

(***************************************************************************)
(* Bounds of the model.                                                    *)
(***************************************************************************)
MaxTags == 2
MaxEntries == 2
MaxTime == 2

(***************************************************************************)
(* Text helpers.                                                           *)
(***************************************************************************)
Digits == {"0", "1", "2", "3", "4", "5", "6", "7", "8", "9"}

Letters == {"a", "b", "c", "d", "e", "f", "g", "h", "i", "j", "k", "l", "m",
            "n", "o", "p", "q", "r", "s", "t", "u", "v", "w", "x", "y", "z"}

DigitVal(c) == CASE c = "0" -> 0 [] c = "1" -> 1 [] c = "2" -> 2 [] c = "3" -> 3
                 [] c = "4" -> 4 [] c = "5" -> 5 [] c = "6" -> 6 [] c = "7" -> 7
                 [] c = "8" -> 8 [] c = "9" -> 9

\* index of the first occurrence of character c in s, 0 when absent
RECURSIVE IndexFrom(_, _, _)
IndexFrom(s, c, i) ==
    IF i > Len(s) THEN 0
    ELSE IF s[i] = c THEN i
    ELSE IndexFrom(s, c, i + 1)

IndexOf(s, c) == IndexFrom(s, c, 1)

\* str.split(c): the pieces of s between the occurrences of c
RECURSIVE SplitOn(_, _)
SplitOn(s, c) ==
    LET i == IndexOf(s, c)
    IN  IF i = 0 THEN <<s>>
        ELSE <<SubSeq(s, 1, i - 1)>> \o SplitOn(SubSeq(s, i + 1, Len(s)), c)

\* Python's `sub in s` for strings
Contains(sub, s) ==
    \E i \in 1..(Len(s) - Len(sub) + 1) : SubSeq(s, i, i + Len(sub) - 1) = sub

RECURSIVE NumVal(_)
NumVal(s) == IF s = <<>> THEN 0 ELSE 10 * NumVal(SubSeq(s, 1, Len(s) - 1)) + DigitVal(s[Len(s)])

(***************************************************************************)
(* utils.valid_semver: one leading "v" is dropped, then the string is      *)
(* parsed as MAJOR.MINOR.PATCH[-prerelease][+build] (semver.VersionInfo).  *)
(***************************************************************************)
None == [kind |-> "None"]

\* 0|[1-9]\d*
IsNumericId(s) ==
    /\ Len(s) > 0
    /\ \A i \in 1..Len(s) : s[i] \in Digits
    /\ (Len(s) > 1 => s[1] # "0")

\* [0-9a-zA-Z-]+
IsAlnumId(s) ==
    /\ Len(s) > 0
    /\ \A i \in 1..Len(s) : s[i] \in Digits \cup Letters \cup {"-"}

\* 0|[1-9]\d*|\d*[a-zA-Z-][0-9a-zA-Z-]*
IsPrereleaseId(s) ==
    /\ IsAlnumId(s)
    /\ ((\A i \in 1..Len(s) : s[i] \in Digits) => IsNumericId(s))

SemverParse(s) ==
    LET plus  == IndexOf(s, "+")
        front == IF plus = 0 THEN s ELSE SubSeq(s, 1, plus - 1)
        build == IF plus = 0 THEN <<>> ELSE SubSeq(s, plus + 1, Len(s))
        dash  == IndexOf(front, "-")
        core  == IF dash = 0 THEN front ELSE SubSeq(front, 1, dash - 1)
        pre   == IF dash = 0 THEN <<>> ELSE SubSeq(front, dash + 1, Len(front))
        nums  == SplitOn(core, ".")
        ok    == /\ Len(nums) = 3
                 /\ \A i \in 1..3 : IsNumericId(nums[i])
                 /\ (dash # 0 => \A i \in DOMAIN SplitOn(pre, ".") :
                                     IsPrereleaseId(SplitOn(pre, ".")[i]))
                 /\ (plus # 0 => \A i \in DOMAIN SplitOn(build, ".") :
                                     IsAlnumId(SplitOn(build, ".")[i]))
    IN  IF ok
        THEN [kind |-> "Version", major |-> NumVal(nums[1]), minor |-> NumVal(nums[2]),
              patch |-> NumVal(nums[3]), prerelease |-> pre, build |-> build]
        ELSE None

\* a variant that drops every leading v, to test C2
valid_semver_any_v(string) ==
    LET RECURSIVE Strip(_)
        Strip(s) == IF Len(s) > 0 /\ s[1] = "v" THEN Strip(Tail(s)) ELSE s
    IN  SemverParse(Strip(string))

valid_semver(string) ==
    SemverParse(IF Len(string) > 0 /\ string[1] = "v" THEN Tail(string) ELSE string)


(***************************************************************************)
(* Sample texts.                                                           *)
(***************************************************************************)
linux == <<"l", "i", "n", "u", "x">>

windows == <<"w", "i", "n", "d", "o", "w", "s">>

arm == <<"a", "r", "m">>

arm64 == <<"a", "r", "m", "6", "4">>

amd64 == <<"a", "m", "d", "6", "4">>

Tag_1_0_0 == <<"1", ".", "0", ".", "0">>

Tag_v1_1_0 == <<"v", "1", ".", "1", ".", "0">>

Tag_latest == <<"l", "a", "t", "e", "s", "t">>

Tag_vv1_0_0 == <<"v", "v", "1", ".", "0", ".", "0">>

\* the tag names inflate(tag) may be given
TagNames == {Tag_1_0_0, Tag_v1_1_0, Tag_latest, Tag_vv1_0_0}

\* the tag names a listing may return
ListedNames == {Tag_1_0_0, Tag_v1_1_0, Tag_latest}

\* the platforms an entry of a manifest list may name
AllPlatforms == {[os |-> linux, architecture |-> arm],
                 [os |-> linux, architecture |-> arm64],
                 [os |-> linux, architecture |-> amd64],
                 [os |-> windows, architecture |-> arm]}

\* the same, while several tags are resolved at once: a compatible platform
\* that is not literally "arm", and one that fails on the os alone
FewPlatforms == {[os |-> linux, architecture |-> arm64],
                 [os |-> windows, architecture |-> arm]}

(***************************************************************************)
(* docker/image_ref.py: the derived properties of a parsed reference.      *)
(***************************************************************************)
ImageRefs == {[registry |-> "docker.io", repository |-> "bluerobotics/cockpit"],
              [registry |-> "ghcr.io", repository |-> "bluerobotics/blueos-doris"]}

\* a variant that knows the one name "docker.io", to test C21
is_dockerhub_short(ref) == ref.registry = "docker.io"

is_dockerhub(ref) == ref.registry \in {"docker.io", "registry-1.docker.io", "index.docker.io"}

is_ghcr(ref) == ref.registry = "ghcr.io"

registry_url(ref) ==
    IF is_dockerhub(ref) THEN "https://registry-1.docker.io" ELSE "https://" \o ref.registry

auth_url(ref) ==
    IF is_dockerhub(ref) THEN "https://auth.docker.io" ELSE "https://" \o ref.registry

auth_service(ref) ==
    IF is_dockerhub(ref) THEN "registry.docker.io" ELSE ref.registry

(***************************************************************************)
(* docker/hub.py: the methods class DockerHub defines.                     *)
(***************************************************************************)
DockerHubMethods == {"__init__", "get", "get_tags"}

(***************************************************************************)
(* What the network may answer.                                            *)
(***************************************************************************)
Digest(n) == [kind |-> "digest", hex |-> n]

unknown == <<"u", "n", "k", "n", "o", "w", "n">>

\* docker/models/tag.py: a TagImage of a Hub tag; its status is one of
\* "active" and "inactive"
TagImage(digest, architecture, os, status) ==
    [digest |-> digest, architecture |-> architecture, os |-> os, status |-> status]

ActiveImage == TagImage(Digest(201), arm64, linux, "active")

InactiveImage == TagImage(Digest(202), arm, linux, "inactive")

UnknownArchImage == TagImage(Digest(203), unknown, linux, "active")

UnknownOsImage == TagImage(Digest(204), amd64, unknown, "active")

\* the image lists a Hub tag handed to inflate(tag) may carry, besides none:
\* one usable image, a usable image among unusable ones, unusable ones only
HubImageLists ==
    {<<ActiveImage>>, <<InactiveImage, ActiveImage, UnknownOsImage>>,
     <<InactiveImage, UnknownArchImage>>}

\* docker/models/tag.py: a Tag of the Hub, by its name and its images
HubTagWith(t, images) == [kind |-> "Tag", name |-> t, images |-> images]

\* a Tag without images
HubTag(t) == HubTagWith(t, << >>)

TagRef(t) == [kind |-> "tag", name |-> t]

\* the config digests a single-image manifest may carry
ConfigDigests == {Digest(101), Digest(102)}

ImageManifest(d) == [kind |-> "ImageManifest", config |-> d]

\* a manifest list as decoded by get_manifest: every entry has a platform;
\* the entry at position i carries digest i
ManifestList(platforms) ==
    [kind |-> "ManifestList",
     manifests |-> [i \in DOMAIN platforms |-> [digest |-> Digest(i), platform |-> platforms[i]]]]

PlatformSeqs(platforms) == UNION {[1..n -> platforms] : n \in 0..MaxEntries}

\* a request that fails: a status of 400 or above, or no answer
HttpError == [kind |-> "error", at |-> "request"]

\* the token endpoint fails inside a call of the registry client
AuthError == [kind |-> "error", at |-> "token"]

ManifestResponsesOver(platforms, digests) ==
    {HttpError} \cup {ImageManifest(d) : d \in digests}
                \cup {ManifestList(ps) : ps \in PlatformSeqs(platforms)}

\* a config blob, by what decoding its labels does: `early` is the parse of
\* the links and tags labels (before the readme fetch), `late` the parse of
\* the remaining labels (after it), `readme` the presence of a readme label;
\* json5.loads and ExtensionType raise a ValueError on a label they reject
\* `architecture` and `os` are those of the config, the architecture
\* possibly empty
Blobs == [kind : {"Blob"}, early : BOOLEAN, readme : BOOLEAN, late : BOOLEAN,
          architecture : {arm64, << >>}, os : {linux}]

\* the JSON bodies of the token endpoint, with an `expires_in` of one second:
\* the bearer value under `token`, under `access_token` only, under neither,
\* or an empty `token`
TokenBodies ==
    {[token |-> "bearer", expires_in |-> 1],
     [access_token |-> "bearer", expires_in |-> 1],
     [expires_in |-> 1],
     [token |-> "", expires_in |-> 1]}

TokenResponse200(body) == [kind |-> "token_response", status |-> 200, body |-> body]

\* a status other than 200; the body is not read
TokenResponse401 == [kind |-> "token_response", status |-> 401, body |-> None]

TagListings == {S \in SUBSET ListedNames : Cardinality(S) <= MaxTags}

(***************************************************************************)
(* docker/models/auth.py: AuthToken.                                       *)
(***************************************************************************)
DefaultExpiresIn == 60

\* bearer values: the n-th value the token endpoint hands out, and the empty
\* string that `self.__token.token if self.__token else ''` falls back to
Bearer(n) == [kind |-> "bearer", n |-> n]

NoBearer == [kind |-> "empty"]

\* the text of field `f` of a token body: None when the body has no such
\* field, the empty string, or the bearer value `value` the endpoint issued
BodyText(body, f, value) ==
    IF f \notin DOMAIN body THEN None
    ELSE IF body[f] = "" THEN NoBearer ELSE value

\* a variant that accepts every body, to test C15
HasBearerAlways(body) == TRUE

\* __post_init__: `not self.token and not self.access_token` raises
HasBearer(body) ==
    \/ "token" \in DOMAIN body /\ body.token # ""
    \/ "access_token" \in DOMAIN body /\ body.access_token # ""

\* a variant that leaves the bearer fields of the token unset, to test C13
AuthTokenPartial(body, value, t) ==
    [kind |-> "AuthToken", token |-> None, access_token |-> None,
     expires_in |-> IF "expires_in" \in DOMAIN body THEN body.expires_in ELSE DefaultExpiresIn,
     issued_at |-> t]

\* AuthToken(**body) built at time `t`: expires_in defaults to 60, issued_at
\* to the time of construction
AuthToken(body, value, t) ==
    [kind |-> "AuthToken",
     token |-> BodyText(body, "token", value),
     access_token |-> BodyText(body, "access_token", value),
     expires_in |-> IF "expires_in" \in DOMAIN body THEN body.expires_in ELSE DefaultExpiresIn,
     issued_at |-> IF "issued_at" \in DOMAIN body THEN body.issued_at ELSE t]

\* a variant that expires a token at exactly expires_in seconds, to test C14
is_expired_inclusive(tok, t) == t - tok.issued_at >= tok.expires_in

\* is_expired read at time `t`
is_expired(tok, t) == t - tok.issued_at > tok.expires_in

(***************************************************************************)
(* State.                                                                  *)
(***************************************************************************)
VARIABLES
    image_ref,  \* Extension.image_ref (fixed at construction)
    arg,        \* the `tag` argument of inflate(): None, or a Tag
    pc,         \* where each coroutine stands: the coordinator and one per tag
    ctx,        \* the locals of each coroutine that outlive an await
    inflight,   \* the request each coroutine is awaiting, None when not waiting
    token,      \* DockerRegistry.__token
    issued,     \* number of tokens the token endpoint has issued
    now,        \* the clock
    versions,   \* Extension.versions
    log,        \* Logger.log_buffer.extensions[identifier], per subject
    calls,      \* history: the network calls of each coroutine and their answers
    listed,     \* the tag names the listing returned
    probe       \* a function applied on its own, its arguments and its result:
                \* None in a run of the program

vars == <<image_ref, arg, pc, ctx, inflight, token, issued, now, versions, log,
          calls, listed, probe>>

\* the coroutine of inflate() itself
Coord == <<"inflate">>

Callers == TagNames \cup {Coord}

NoCtx == [op |-> "none", ref |-> None, manifest |-> None, blob |-> None]

\* the answers of the network are drawn from fewer samples while the tags
\* of a listing are resolved at once, and while the tag given to
\* inflate(tag) carries images
Few == arg = None \/ arg.images # << >>

\* the manifests the registry may serve. While a single tag is resolved:
\* every list of up to MaxEntries platforms and every config digest. While
\* the tags of a listing are resolved at once: one config digest and the
\* lists of at most one entry over FewPlatforms.
ManifestResponses ==
    IF Few
    THEN {HttpError, ImageManifest(Digest(101)), ManifestList(<< >>)}
         \cup {ManifestList(<<p>>) : p \in FewPlatforms}
    ELSE ManifestResponsesOver(AllPlatforms, ConfigDigests)

\* the manifests the registry may serve at a digest of a manifest list: an
\* image, or again a list (of one entry)
RefetchResponses ==
    IF Few
    THEN {HttpError, ImageManifest(Digest(101)),
          ManifestList(<<[os |-> linux, architecture |-> arm64]>>)}
    ELSE {HttpError} \cup {ImageManifest(d) : d \in ConfigDigests}
                     \cup {ManifestList(<<p>>) : p \in FewPlatforms}

\* the config blobs the registry may serve; while the tags of a listing are
\* resolved at once, a blob whose early labels are rejected has no readme
BlobResponses ==
    IF Few
    THEN {HttpError} \cup {b \in Blobs : /\ ~b.early => (~b.readme /\ ~b.late)
                                         /\ b.architecture = arm64}
    ELSE {HttpError} \cup {b \in Blobs : b.architecture = << >> =>
                                             (b.early /\ ~b.readme /\ b.late)}

\* the answers of the token endpoint. While a single tag is resolved: every
\* body. While the tags of a listing are resolved at once: the body with
\* `token`.
TokenResponses ==
    IF Few
    THEN {TokenResponse401, TokenResponse200([token |-> "bearer", expires_in |-> 1])}
    ELSE {TokenResponse401} \cup {TokenResponse200(b) : b \in TokenBodies}

\* a variant that builds a Hub client for every registry, to test C22
docker_hub_always == [kind |-> "DockerHub", repository |-> image_ref.repository]

\* Extension.__init__: the Hub client, built for a Docker Hub reference only
docker_hub ==
    IF is_dockerhub(image_ref)
    THEN [kind |-> "DockerHub", repository |-> image_ref.repository]
    ELSE None

\* DockerRegistry.__init__ for this extension
Registry ==
    [repository |-> image_ref.repository,
     api_url |-> registry_url(image_ref) \o "/v2",
     auth_url |-> auth_url(image_ref),
     auth_service |-> auth_service(image_ref)]

\* the program is one call on a fresh Extension: inflate(), inflate(tag), or
\* get_rate_limit() on its registry client
Init ==
    /\ image_ref \in ImageRefs
    /\ arg \in {None} \cup {HubTag(t) : t \in TagNames}
                    \cup {HubTagWith(Tag_1_0_0, l) : l \in HubImageLists}
    /\ \E entry \in {"ready", "ready_rate"} :
         /\ entry = "ready_rate" => arg = None
         /\ pc = [c \in Callers |-> IF c = Coord THEN entry ELSE "idle"]
    /\ ctx = [c \in Callers |-> NoCtx]
    /\ inflight = [c \in Callers |-> None]
    /\ token = None
    /\ issued = 0
    /\ now = 0
    /\ versions = << >>
    /\ log = [c \in Callers |-> << >>]
    /\ calls = [c \in Callers |-> << >>]
    /\ listed = {}
    /\ probe = None

(***************************************************************************)
(* Extension.__is_compatible and the choice of the embedded entry.         *)
(***************************************************************************)
\* a variant that asks for the architecture "arm" itself, to test C9
is_compatible_exact(platform) == platform.os = linux /\ platform.architecture = arm

is_compatible(platform) == platform.os = linux /\ Contains(arm, platform.architecture)

\* a variant without the platform filter, to test C6
all_manifests(manifest) == manifest.manifests

\* [entry for entry in fetch.manifest.manifests if self.__is_compatible(entry.platform)]
valid_manifests(manifest) ==
    SelectSeq(manifest.manifests, LAMBDA entry : is_compatible(entry.platform))

(***************************************************************************)
(* Logger entries. `about` is the tag (or the listing) the message names,   *)
(* `message` the fixed part of its text.                                   *)
(***************************************************************************)
Info(about, message) == [status |-> "INFO", about |-> about, message |-> message]

Warning(about, message) == [status |-> "WARNING", about |-> about, message |-> message]

Error(about, message) == [status |-> "ERROR", about |-> about, message |-> message]

(***************************************************************************)
(* The history of the calls each coroutine made on the registry client,    *)
(* the Hub client and the readme fetch, with what each call returned (or   *)
(* the error it raised).                                                   *)
(***************************************************************************)
Pending == [kind |-> "pending"]

\* `auth` is what the token endpoint answered to the token request of the
\* call: None while the call made none
Call(op, ref) == [op |-> op, ref |-> ref, got |-> Pending, auth |-> None]

\* the calls of coroutine c, the token request of the last one answered by r
Authed(c, r) == [calls[c] EXCEPT ![Len(calls[c])].auth = r]

\* the calls of coroutine c, the last one answered by r
Answered(c, r) == [calls[c] EXCEPT ![Len(calls[c])].got = r]

(***************************************************************************)
(* DockerRegistry: __check_token, then the request is built.               *)
(***************************************************************************)
WaitState(op) == CASE op = "tags" -> "wait_tags"
                   [] op = "manifest" -> "wait_manifest"
                   [] op = "refetch" -> "wait_refetch"
                   [] op = "blob" -> "wait_blob"
                   [] op = "rate_limit" -> "wait_rate"

\* DockerAuthAPI(auth_url, service).get_token(repository): the GET it sends
TokenRequest ==
    [kind |-> "token_request", url |-> Registry.auth_url \o "/token",
     service |-> Registry.auth_service,
     scope |-> "repository:" \o Registry.repository \o ":pull"]

\* the GET built after __check_token: route and Authorization header
RegistryRequest(op, ref, tok) ==
    [kind |-> "registry_request", api_url |-> Registry.api_url,
     repository |-> Registry.repository, op |-> op, ref |-> ref,
     bearer |-> IF tok = None THEN NoBearer ELSE tok.token]

\* a variant that asks for a token at every call, to test C11
NeedsTokenAlways == TRUE

\* a variant that never asks for a token, to test C10
NeedsTokenNever == FALSE

\* `not self.__token or self.__token.is_expired`
NeedsToken == token = None \/ is_expired(token, now)

\* a variant that builds the request with the token cached before the
\* refresh, to test C12
BuildCached(c, op, ref, keep, tok) ==
    /\ pc' = [pc EXCEPT ![c] = WaitState(op)]
    /\ ctx' = [ctx EXCEPT ![c] = [keep EXCEPT !.op = op, !.ref = ref]]
    /\ inflight' = [inflight EXCEPT ![c] = RegistryRequest(op, ref, token)]

\* the request of call `op` is built with token `tok` and sent
Build(c, op, ref, keep, tok) ==
    /\ pc' = [pc EXCEPT ![c] = WaitState(op)]
    /\ ctx' = [ctx EXCEPT ![c] = [keep EXCEPT !.op = op, !.ref = ref]]
    /\ inflight' = [inflight EXCEPT ![c] = RegistryRequest(op, ref, tok)]

\* coroutine c calls get_manifest / get_manifest_blob / list_tags /
\* get_rate_limit: it runs to the first await that suspends, the token
\* request or the registry request; `hist` is the history of c so far
BeginCall(c, op, ref, keep, hist) ==
    /\ calls' = [calls EXCEPT ![c] =
                    Append(hist, [Call(op, ref) EXCEPT
                                    !.auth = IF NeedsToken THEN Pending ELSE None])]
    /\ UNCHANGED <<token, issued>>
    /\ IF NeedsToken
       THEN /\ pc' = [pc EXCEPT ![c] = "wait_token"]
            /\ ctx' = [ctx EXCEPT ![c] = [keep EXCEPT !.op = op, !.ref = ref]]
            /\ inflight' = [inflight EXCEPT ![c] = TokenRequest]
       ELSE Build(c, op, ref, keep, token)

\* the message of the handler that catches exception `error` of coroutine
\* c: the one handler of inflate, or the three of __process_tag
Handled(c, error) ==
    IF c = <<"inflate">> THEN "Unable to fetch tags"
    ELSE CASE error = "ValueError" -> "Invalid tag name"
           [] error = "KeyError" -> "Failed to generate version, error in key"
           [] OTHER -> "Failed to generate version"

\* a variant whose handlers log nothing, to test C5
RaiseUnlogged(c, error, entries, hist) ==
    /\ pc' = [pc EXCEPT ![c] = IF ctx[c].op = "rate_limit" THEN "raised" ELSE "done"]
    /\ ctx' = [ctx EXCEPT ![c] = NoCtx]
    /\ inflight' = [inflight EXCEPT ![c] = None]
    /\ log' = log
    /\ calls' = [calls EXCEPT ![c] = hist]

\* a variant without handlers, where the exception leaves the coroutine, to
\* test C33
RaiseUncaught(c, error, entries, hist) ==
    /\ pc' = [pc EXCEPT ![c] = "raised"]
    /\ ctx' = [ctx EXCEPT ![c] = NoCtx]
    /\ inflight' = [inflight EXCEPT ![c] = None]
    /\ log' = [log EXCEPT ![c] = @ \o entries]
    /\ calls' = [calls EXCEPT ![c] = hist]

\* an exception leaves coroutine c: __process_tag and inflate both catch it,
\* log one error under the extension and return; get_rate_limit has no
\* handler and the exception reaches its caller
Raise(c, error, entries, hist) ==
    /\ pc' = [pc EXCEPT ![c] = IF ctx[c].op = "rate_limit" THEN "raised" ELSE "done"]
    /\ ctx' = [ctx EXCEPT ![c] = NoCtx]
    /\ inflight' = [inflight EXCEPT ![c] = None]
    /\ log' = [log EXCEPT ![c] = IF ctx[c].op = "rate_limit" THEN @
                                 ELSE @ \o entries \o <<Error(c, Handled(c, error))>>]
    /\ calls' = [calls EXCEPT ![c] = hist]

(***************************************************************************)
(* Extension.__extract_valid_embedded_digest, in its two halves: before    *)
(* and after the await of the second get_manifest.                         *)
(***************************************************************************)
\* a variant that takes the last compatible entry, to test C7
ChosenEntryLast(valid) == valid[Len(valid)]

\* valid_manifests[0]
ChosenEntry(valid) == valid[1]

\* a variant that falls back on the first entry of the list when none is
\* compatible, to test C36
ExtractFirstFallback(t, manifest) ==
    IF manifest.kind = "ImageManifest"
    THEN [kind |-> "return", digest |-> manifest.config, entries |-> << >>]
    ELSE LET valid == valid_manifests(manifest)
             warn  == IF Len(valid) # 1
                      THEN <<Warning(t, "Expected one valid manifest")>>
                      ELSE << >>
         IN  IF manifest.manifests = << >>
             THEN [kind |-> "raise", entries |-> warn]
             ELSE IF valid = << >>
             THEN [kind |-> "refetch", digest |-> manifest.manifests[1].digest, entries |-> warn]
             ELSE [kind |-> "refetch", digest |-> ChosenEntry(valid).digest, entries |-> warn]

\* what the first half does with the manifest of the tag: return a digest,
\* re-fetch at a digest, or raise (IndexError on an empty list)
ExtractFirst(t, manifest) ==
    IF manifest.kind = "ImageManifest"
    THEN [kind |-> "return", digest |-> manifest.config, entries |-> << >>]
    ELSE LET valid == valid_manifests(manifest)
             warn  == IF Len(valid) # 1
                      THEN <<Warning(t, "Expected one valid manifest")>>
                      ELSE << >>
         IN  IF valid = << >>
             THEN [kind |-> "raise", entries |-> warn]
             ELSE [kind |-> "refetch", digest |-> ChosenEntry(valid).digest, entries |-> warn]

\* a variant that accepts a re-fetched list, to test C8
ExtractSecondLenient(refetched) ==
    IF refetched.kind = "ImageManifest"
    THEN [kind |-> "return", digest |-> refetched.config]
    ELSE [kind |-> "return", digest |-> refetched.manifests[1].digest]

\* what the second half does with the re-fetched manifest
ExtractSecond(refetched) ==
    IF refetched.kind = "ImageManifest"
    THEN [kind |-> "return", digest |-> refetched.config]
    ELSE [kind |-> "raise"]

(***************************************************************************)
(* Extension.inflate: the coordinator.                                     *)
(***************************************************************************)
HubTagsRequest ==
    [kind |-> "hub_request", repository |-> docker_hub.repository, route |-> "tags"]

ReadmeRequest == [kind |-> "readme_request"]

\* asyncio.gather(*(self.__process_tag(...) for ...)): one task per name
Gather(names, hist) ==
    /\ pc' = [c \in Callers |-> IF c \in names THEN "ready"
                                ELSE IF c = Coord THEN "gather" ELSE pc[c]]
    /\ ctx' = [ctx EXCEPT ![Coord] = NoCtx]
    /\ inflight' = [inflight EXCEPT ![Coord] = None]
    /\ calls' = [calls EXCEPT ![Coord] = hist]
    /\ UNCHANGED log

\* inflate() runs to its first await: the single tag it was given, the Hub
\* listing, or the registry's list_tags. With a tag the coroutine of
\* __process_tag is awaited in place; it is the only task.
InflateStart ==
    /\ pc[Coord] = "ready"
    /\ IF arg # None
       THEN /\ pc' = [pc EXCEPT ![Coord] = "gather", ![arg.name] = "ready"]
            /\ UNCHANGED <<ctx, inflight, token, issued, calls>>
       ELSE IF docker_hub # None
       THEN /\ pc' = [pc EXCEPT ![Coord] = "wait_hub"]
            /\ inflight' = [inflight EXCEPT ![Coord] = HubTagsRequest]
            /\ calls' = [calls EXCEPT ![Coord] = Append(@, Call("hub_tags", None))]
            /\ UNCHANGED <<ctx, token, issued>>
       ELSE BeginCall(Coord, "tags", None, NoCtx, calls[Coord])
    /\ UNCHANGED <<probe, image_ref, arg, now, versions, log, listed>>

\* the Hub answers get_tags(); then `self.docker_hub.repo_info()` is looked
\* up on the DockerHub object
HubTagsResponse ==
    /\ pc[Coord] = "wait_hub"
    /\ \E r \in {HttpError} \cup {[kind |-> "TagList", results |-> S] : S \in TagListings} :
         /\ listed' = IF r.kind = "error" THEN listed ELSE r.results
         /\ IF r.kind = "error" \/ "repo_info" \notin DockerHubMethods
            THEN Raise(Coord, IF r.kind = "error" THEN "Exception" ELSE "AttributeError",
                       << >>, Answered(Coord, r))
            ELSE Gather(r.results, Answered(Coord, r))
    /\ UNCHANGED <<probe, image_ref, arg, token, issued, now, versions>>

\* the registry answers list_tags()
TagsResponse ==
    /\ pc[Coord] = "wait_tags"
    /\ \E r \in {HttpError} \cup {[kind |-> "tags", tags |-> S] : S \in TagListings} :
         IF r.kind = "error"
         THEN Raise(Coord, "Exception", << >>, Answered(Coord, r)) /\ UNCHANGED listed
         ELSE Gather(r.tags, Answered(Coord, r)) /\ listed' = r.tags
    /\ UNCHANGED <<probe, image_ref, arg, token, issued, now, versions>>

\* gather (or the single awaited __process_tag) is over: inflate returns
InflateReturn ==
    /\ pc[Coord] = "gather"
    /\ \A t \in TagNames : pc[t] \in {"idle", "done"}
    /\ pc' = [pc EXCEPT ![Coord] = "done"]
    /\ UNCHANGED <<probe, image_ref, arg, ctx, inflight, token, issued, now, versions, log,
                   calls, listed>>

(***************************************************************************)
(* DockerRegistry.get_rate_limit.                                          *)
(***************************************************************************)
RateLimitStart ==
    /\ pc[Coord] = "ready_rate"
    /\ BeginCall(Coord, "rate_limit", TagRef(Tag_latest), NoCtx, calls[Coord])
    /\ UNCHANGED <<probe, image_ref, arg, now, versions, log, listed>>

\* the HEAD answers: a status of 400 or above raises, else a RateLimit is
\* returned
RateLimitResponse ==
    /\ pc[Coord] = "wait_rate"
    /\ \E r \in {HttpError, [kind |-> "headers"]} :
         IF r.kind = "error"
         THEN Raise(Coord, "Exception", << >>, Answered(Coord, r))
         ELSE /\ pc' = [pc EXCEPT ![Coord] = "done"]
              /\ ctx' = [ctx EXCEPT ![Coord] = NoCtx]
              /\ inflight' = [inflight EXCEPT ![Coord] = None]
              /\ calls' = [calls EXCEPT ![Coord] = Answered(Coord, r)]
              /\ UNCHANGED log
    /\ UNCHANGED <<probe, image_ref, arg, token, issued, now, versions, listed>>

(***************************************************************************)
(* DockerAuthAPI.get_token answers: __check_token stores the token and the *)
(* suspended call builds its request.                                      *)
(***************************************************************************)
TokenResponse(c) ==
    /\ pc[c] = "wait_token"
    /\ \E r \in TokenResponses :
         LET failed == [Authed(c, r) EXCEPT ![Len(calls[c])].got = AuthError]
         IN  IF r.status # 200
             THEN Raise(c, "Exception", << >>, failed) /\ UNCHANGED <<token, issued>>
             ELSE IF ~HasBearer(r.body)
             THEN Raise(c, "ValueError", << >>, failed) /\ UNCHANGED <<token, issued>>
             ELSE LET tok == AuthToken(r.body, Bearer(issued + 1), now)
                  IN  /\ token' = tok
                      /\ issued' = issued + 1
                      /\ Build(c, ctx[c].op, ctx[c].ref, ctx[c], tok)
                      /\ calls' = [calls EXCEPT ![c] = Authed(c, r)]
                      /\ UNCHANGED log
    /\ UNCHANGED <<probe, image_ref, arg, now, versions, listed>>

(***************************************************************************)
(* Extension.__process_tag, one action per resumption.                     *)
(***************************************************************************)
\* a variant without the semver check, to test C3
SemverCheckSkipped(t) == FALSE

\* `if not valid_semver(tag_name): raise ValueError`
InvalidTagName(t) == valid_semver(t) = None

TaskStart(t) ==
    /\ pc[t] = "ready"
    /\ IF InvalidTagName(t)
       THEN Raise(t, "ValueError", << >>, calls[t]) /\ UNCHANGED <<token, issued>>
       ELSE BeginCall(t, "manifest", TagRef(t), NoCtx, calls[t]) /\ UNCHANGED log
    /\ UNCHANGED <<probe, image_ref, arg, now, versions, listed>>

ManifestResponse(t) ==
    /\ pc[t] = "wait_manifest"
    /\ \E r \in ManifestResponses :
         IF r.kind = "error"
         THEN Raise(t, "Exception", << >>, Answered(t, r)) /\ UNCHANGED <<token, issued>>
         ELSE LET x    == ExtractFirst(t, r)
                  keep == [NoCtx EXCEPT !.manifest = r]
              IN  CASE x.kind = "raise" ->
                         /\ Raise(t, "IndexError", x.entries, Answered(t, r))
                         /\ UNCHANGED <<token, issued>>
                    [] x.kind = "refetch" ->
                         /\ BeginCall(t, "refetch", x.digest, keep, Answered(t, r))
                         /\ log' = [log EXCEPT ![t] = @ \o x.entries]
                    [] x.kind = "return" ->
                         /\ BeginCall(t, "blob", x.digest, keep, Answered(t, r))
                         /\ UNCHANGED log
    /\ UNCHANGED <<probe, image_ref, arg, now, versions, listed>>

RefetchResponse(t) ==
    /\ pc[t] = "wait_refetch"
    /\ \E r \in RefetchResponses :
         IF r.kind = "error"
         THEN Raise(t, "Exception", << >>, Answered(t, r)) /\ UNCHANGED <<token, issued>>
         ELSE LET x == ExtractSecond(r)
              IN  CASE x.kind = "raise" ->
                         /\ Raise(t, "RuntimeError", << >>, Answered(t, r))
                         /\ UNCHANGED <<token, issued>>
                    [] x.kind = "return" ->
                         /\ BeginCall(t, "blob", x.digest, ctx[t], Answered(t, r))
                         /\ UNCHANGED log
    /\ UNCHANGED <<probe, image_ref, arg, now, versions, listed>>

\* models.py: an Image of a version
Image(digest, architecture, os) ==
    [digest |-> digest, platform |-> [architecture |-> architecture, os |-> os]]

\* a variant that takes every image of the Hub tag, to test C26
extract_images_from_tag_all(tag) ==
    [i \in DOMAIN tag.images |->
        Image(tag.images[i].digest, tag.images[i].architecture, tag.images[i].os)]

\* __extract_images_from_tag: the images of the Hub tag that are active and
\* whose architecture and os are known, in their order
extract_images_from_tag(tag) ==
    LET active(image) == /\ image.status = "active"
                         /\ image.architecture # unknown
                         /\ image.os # unknown
        active_images == SelectSeq(tag.images, active)
    IN  [i \in DOMAIN active_images |->
            Image(active_images[i].digest, active_images[i].architecture,
                  active_images[i].os)]

\* __extract_images_from_manifest: the one image of a single-image manifest,
\* with the platform of the blob, or one image per entry of a list
extract_images_from_manifest(manifest, blob) ==
    IF manifest.kind = "ImageManifest"
    THEN <<Image(manifest.config,
                 IF blob.architecture # << >> THEN blob.architecture ELSE unknown,
                 IF blob.os # << >> THEN blob.os ELSE unknown)>>
    ELSE [i \in DOMAIN manifest.manifests |->
             Image(manifest.manifests[i].digest,
                   manifest.manifests[i].platform.architecture,
                   manifest.manifests[i].platform.os)]

\* the hub_tag argument of __process_tag for tag t: the Tag given to
\* inflate(tag), the listed Tag of the Hub, or none
hub_tag(t) ==
    IF arg # None THEN arg
    ELSE IF docker_hub # None THEN HubTag(t)
    ELSE None

\* a variant that never reads the manifest, to test C25
ImagesOfTagOnly(tag, manifest, blob) ==
    IF tag # None THEN extract_images_from_tag(tag) ELSE << >>

\* the images of __create_version: those of the Hub tag, or, when there is
\* no Hub tag or it gives none, those of the manifest
ImagesOf(tag, manifest, blob) ==
    LET images == IF tag # None THEN extract_images_from_tag(tag) ELSE << >>
    IN  IF images # << >> THEN images ELSE extract_images_from_manifest(manifest, blob)

\* Extension.identifier, from the metadata: "test.cockpit" for the extension
\* on Docker Hub, "test.doris" for the other
identifier ==
    IF is_dockerhub(image_ref)
    THEN <<"t", "e", "s", "t", ".", "c", "o", "c", "k", "p", "i", "t">>
    ELSE <<"t", "e", "s", "t", ".", "d", "o", "r", "i", "s">>

\* uuid.uuid5(namespace, name): the name-based UUID, kept as the pair it is
\* the hash of
uuid5(namespace, name) == [kind |-> "uuid5", namespace |-> namespace, name |-> name]

\* a variant that mixes the time into the name, to test C30
tag_identifier_timed(tag_name) ==
    uuid5("NAMESPACE_DNS", identifier \o <<".">> \o tag_name \o <<".", now>>)

\* the identifier of the version of tag `tag_name`
tag_identifier(tag_name) == uuid5("NAMESPACE_DNS", identifier \o <<".">> \o tag_name)

\* a variant that replaces the map by the one entry, to test C1
StoredAlone(t, version) == (t :> version)

\* Extension.versions after `self.versions[tag_name] = version`
Stored(t, version) == (t :> version) @@ versions

\* the end of __create_version, the store and the info entry
StoreVersion(t, blob, readme, entries, hist) ==
    LET images == ImagesOf(hub_tag(t), ctx[t].manifest, blob)
        found  == IF images # << >> THEN << >>
                  ELSE <<Error(t, "Could not find images associated with tag")>>
    IN
    IF ~blob.late
    THEN Raise(t, "ValueError", entries \o found, hist) /\ UNCHANGED versions
    ELSE /\ versions' = Stored(t, [identifier |-> tag_identifier(t), tag |-> t,
                                     readme |-> readme, images |-> images])
         /\ log' = [log EXCEPT ![t] = @ \o entries \o found
                                        \o <<Info(t, "Generated version entry")>>]
         /\ pc' = [pc EXCEPT ![t] = "done"]
         /\ ctx' = [ctx EXCEPT ![t] = NoCtx]
         /\ inflight' = [inflight EXCEPT ![t] = None]
         /\ calls' = [calls EXCEPT ![t] = hist]

BlobResponse(t) ==
    /\ pc[t] = "wait_blob"
    /\ \E r \in BlobResponses :
         IF r.kind = "error" \/ ~r.early
         THEN /\ Raise(t, IF r.kind = "error" THEN "Exception" ELSE "ValueError",
                       << >>, Answered(t, r))
              /\ UNCHANGED versions
         ELSE IF r.readme
         THEN /\ pc' = [pc EXCEPT ![t] = "wait_readme"]
              /\ ctx' = [ctx EXCEPT ![t].blob = r]
              /\ inflight' = [inflight EXCEPT ![t] = ReadmeRequest]
              /\ calls' = [calls EXCEPT ![t] = Append(Answered(t, r), Call("readme", None))]
              /\ UNCHANGED <<versions, log>>
         ELSE StoreVersion(t, r, "absent", << >>, Answered(t, r))
    /\ UNCHANGED <<probe, image_ref, arg, token, issued, now, listed>>

\* fetch_readme returns the text or raises; process_readme_md then encodes
\* the images of the text or raises, and the text is kept as fetched
ReadmeResponse(t) ==
    /\ pc[t] = "wait_readme"
    /\ \E r \in {HttpError} \cup [kind : {"text"}, processed : BOOLEAN] :
         StoreVersion(t, ctx[t].blob,
                      IF r.kind = "error" THEN "No README available"
                      ELSE IF r.processed THEN "processed" ELSE "fetched",
                      IF r.kind = "error" THEN <<Warning(t, "Could not get readme")>>
                      ELSE IF r.processed THEN << >>
                      ELSE <<Warning(t, "Could not process readme")>>,
                      Answered(t, r))
    /\ UNCHANGED <<probe, image_ref, arg, token, issued, now, listed>>

\* time passes; the clock is only read by is_expired, so the model lets it
\* advance while a live token is cached
Tick ==
    /\ now < MaxTime
    /\ pc[Coord] \notin {"done", "raised"}
    /\ token # None
    /\ ~is_expired(token, now)
    /\ now' = now + 1
    /\ UNCHANGED <<probe, image_ref, arg, pc, ctx, inflight, token, issued, versions, log,
                   calls, listed>>

Next ==
    \/ InflateStart
    \/ HubTagsResponse
    \/ TagsResponse
    \/ InflateReturn
    \/ RateLimitStart
    \/ RateLimitResponse
    \/ \E c \in Callers : TokenResponse(c)
    \/ \E t \in TagNames : TaskStart(t)
    \/ \E t \in TagNames : ManifestResponse(t)
    \/ \E t \in TagNames : RefetchResponse(t)
    \/ \E t \in TagNames : BlobResponse(t)
    \/ \E t \in TagNames : ReadmeResponse(t)
    \/ Tick

Spec == Init /\ [][Next]_vars

(***************************************************************************)
(* The functions of the program that read no state are applied on their    *)
(* own: each has a specification that draws the arguments and applies the  *)
(* function, while no extension is inflated.                               *)
(***************************************************************************)
run_vars == <<image_ref, arg, pc, ctx, inflight, token, issued, now, versions, log,
              calls, listed>>

\* no Extension has been constructed
NoRun ==
    /\ image_ref = None
    /\ arg = None
    /\ pc = [c \in Callers |-> "idle"]
    /\ ctx = [c \in Callers |-> NoCtx]
    /\ inflight = [c \in Callers |-> None]
    /\ token = None
    /\ issued = 0
    /\ now = 0
    /\ versions = << >>
    /\ log = [c \in Callers |-> << >>]
    /\ calls = [c \in Callers |-> << >>]
    /\ listed = {}

(***************************************************************************)
(* docker/models/auth.py on its own: an AuthToken is built from a body at  *)
(* a time `at`, then is_expired is read `elapsed` seconds later.           *)
(***************************************************************************)
\* the seconds that may pass between the construction and the check
MaxElapsed == 62

\* the JSON bodies a token endpoint may answer with: `token` absent, empty
\* or set, `access_token` absent or set, `expires_in` absent or one second,
\* `issued_at` absent or the time 0 of the server
AllTokenBodies ==
    {tk @@ ac @@ ex @@ at :
        tk \in {<< >>, [token |-> ""], [token |-> "bearer"]},
        ac \in {<< >>, [access_token |-> "bearer"]},
        ex \in {<< >>, [expires_in |-> 1]},
        at \in {<< >>, [issued_at |-> 0]}}

InitAuthToken ==
    /\ NoRun
    /\ \E b \in AllTokenBodies, t \in {0, 1} :
         probe = [fn |-> "AuthToken", stage |-> "body", body |-> b, at |-> t,
                  token |-> None, elapsed |-> 0, is_expired |-> FALSE]

\* AuthToken(**body): __post_init__ raises, or the token is built
Construct ==
    /\ probe.stage = "body"
    /\ probe' = IF HasBearer(probe.body)
                THEN [probe EXCEPT !.stage = "built",
                                   !.token = AuthToken(probe.body, Bearer(1), probe.at)]
                ELSE [probe EXCEPT !.stage = "raised"]
    /\ UNCHANGED run_vars

\* token.is_expired, read `elapsed` seconds after the construction
ReadExpired ==
    /\ probe.stage = "built"
    /\ \E d \in 0..MaxElapsed :
         probe' = [probe EXCEPT !.stage = "read", !.elapsed = d,
                                !.is_expired = is_expired(probe.token, probe.at + d)]
    /\ UNCHANGED run_vars

NextAuthToken == Construct \/ ReadExpired

SpecAuthToken == InitAuthToken /\ [][NextAuthToken]_vars

(***************************************************************************)
(* docker/registry.py on its own: what get_manifest makes of the JSON body *)
(* the registry answered with.                                             *)
(***************************************************************************)
\* an entry of the `manifests` array at position i: with the platform p, or
\* without a `platform` key (an attestation manifest) when p is None
RawEntry(i, p) ==
    IF p = None
    THEN [mediaType |-> "application/vnd.oci.image.manifest.v1+json", size |-> 1,
          digest |-> Digest(i)]
    ELSE [mediaType |-> "application/vnd.oci.image.manifest.v1+json", size |-> 1,
          digest |-> Digest(i), platform |-> p]

\* the `manifests` arrays of up to MaxEntries entries
RawLists ==
    UNION {{[i \in 1..n |-> RawEntry(i, ps[i])] : ps \in [1..n -> FewPlatforms \cup {None}]} :
             n \in 0..MaxEntries}

\* the JSON bodies: each of the five keys present or not
RawBodies ==
    {sv @@ mt @@ cf @@ ly @@ ms :
        sv \in {<< >>, [schemaVersion |-> 2]},
        mt \in {<< >>, [mediaType |-> "application/json"]},
        cf \in {<< >>, [config |-> [mediaType |-> "application/json", size |-> 1,
                                    digest |-> Digest(101)]]},
        ly \in {<< >>, [layers |-> << >>]},
        ms \in {<< >>} \cup {[manifests |-> l] : l \in RawLists}}

\* fromdict raises: a field without default is missing from the body
DecodeError == [kind |-> "error", at |-> "decode"]

\* fromdict(ImageManifest, body): the four fields of the dataclass have no
\* default
FromDictImageManifest(body) ==
    IF {"schemaVersion", "mediaType", "config", "layers"} \subseteq DOMAIN body
    THEN ImageManifest(body.config.digest)
    ELSE DecodeError

\* fromdict(ManifestList, body): the three fields of the dataclass have no
\* default, nor has the `platform` of a Manifest
FromDictManifestList(body) ==
    IF /\ {"schemaVersion", "mediaType", "manifests"} \subseteq DOMAIN body
       /\ \A i \in DOMAIN body.manifests : "platform" \in DOMAIN body.manifests[i]
    THEN [kind |-> "ManifestList",
          manifests |-> [i \in DOMAIN body.manifests |->
                           [digest |-> body.manifests[i].digest,
                            platform |-> body.manifests[i].platform]]]
    ELSE DecodeError

HasPlatform(m) == "platform" \in DOMAIN m

\* a variant that keeps every entry, to test C18
KeepAll(manifests) == manifests

\* [m for m in manifest["manifests"] if "platform" in m]
FilterPlatform(manifests) == SelectSeq(manifests, HasPlatform)

\* a variant that looks for `manifests` first, to test C17
DecodeManifestListFirst(body) ==
    IF "manifests" \in DOMAIN body
    THEN FromDictManifestList([body EXCEPT !.manifests = FilterPlatform(body.manifests)])
    ELSE FromDictImageManifest(body)

\* get_manifest after the GET returned `body`
DecodeManifest(body) ==
    IF "config" \in DOMAIN body
    THEN FromDictImageManifest(body)
    ELSE IF "manifests" \in DOMAIN body
    THEN FromDictManifestList([body EXCEPT !.manifests = FilterPlatform(body.manifests)])
    ELSE FromDictManifestList(body)

InitManifest ==
    /\ NoRun
    /\ \E b \in RawBodies :
         probe = [fn |-> "get_manifest", stage |-> "body", body |-> b, result |-> None]

\* the body is decoded; `result` is the manifest of the ManifestFetch
\* returned, or the error raised
DecodeBody ==
    /\ probe.stage = "body"
    /\ probe' = [probe EXCEPT !.stage = "decoded", !.result = DecodeManifest(probe.body)]
    /\ UNCHANGED run_vars

NextManifest == DecodeBody

SpecManifest == InitManifest /\ [][NextManifest]_vars

(***************************************************************************)
(* docker/image_ref.py on its own: DockerImageRef.parse applied to a       *)
(* reference.                                                              *)
(***************************************************************************)
\* the longest reference drawn from RefChars
MaxRefLen == 5

\* a letter, and the characters parse looks for
RefChars == {"a", ".", "/", ":", "@"}

\* the references of the tests, and a registry on localhost without and with
\* a port
\* "bluerobotics/cockpit"
Ref_cockpit ==
    <<"b", "l", "u", "e", "r", "o", "b", "o", "t", "i", "c", "s", "/",
    "c", "o", "c", "k", "p", "i", "t">>

\* "docker.io/bluerobotics/cockpit"
Ref_dockerio_cockpit ==
    <<"d", "o", "c", "k", "e", "r", ".", "i", "o", "/", "b", "l", "u",
    "e", "r", "o", "b", "o", "t", "i", "c", "s", "/", "c", "o", "c", "k",
    "p", "i", "t">>

\* "ghcr.io/bluerobotics/blueos-doris"
Ref_ghcr_doris ==
    <<"g", "h", "c", "r", ".", "i", "o", "/", "b", "l", "u", "e", "r",
    "o", "b", "o", "t", "i", "c", "s", "/", "b", "l", "u", "e", "o", "s",
    "-", "d", "o", "r", "i", "s">>

\* "ghcr.io/bluerobotics/blueos-doris:0.0.1"
Ref_ghcr_doris_tag ==
    <<"g", "h", "c", "r", ".", "i", "o", "/", "b", "l", "u", "e", "r",
    "o", "b", "o", "t", "i", "c", "s", "/", "b", "l", "u", "e", "o", "s",
    "-", "d", "o", "r", "i", "s", ":", "0", ".", "0", ".", "1">>

\* "ghcr.io/org/repo@sha256:abcdef1234567890"
Ref_ghcr_digest ==
    <<"g", "h", "c", "r", ".", "i", "o", "/", "o", "r", "g", "/", "r",
    "e", "p", "o", "@", "s", "h", "a", "2", "5", "6", ":", "a", "b", "c",
    "d", "e", "f", "1", "2", "3", "4", "5", "6", "7", "8", "9", "0">>

\* "localhost/org/repo"
Ref_localhost ==
    <<"l", "o", "c", "a", "l", "h", "o", "s", "t", "/", "o", "r", "g",
    "/", "r", "e", "p", "o">>

\* "localhost:5000/org/repo"
Ref_localhost_port ==
    <<"l", "o", "c", "a", "l", "h", "o", "s", "t", ":", "5", "0", "0",
    "0", "/", "o", "r", "g", "/", "r", "e", "p", "o">>

SampleRefs ==
    {Ref_cockpit,
     Ref_dockerio_cockpit,
     Ref_ghcr_doris,
     Ref_ghcr_doris_tag,
     Ref_ghcr_digest,
     Ref_localhost,
     Ref_localhost_port}

\* the references parse is applied to: every text of up to MaxRefLen
\* characters of RefChars, and the samples
RefTexts == UNION {[1..n -> RefChars] : n \in 0..MaxRefLen} \cup SampleRefs

\* "docker.io"
DockerIo == <<"d", "o", "c", "k", "e", "r", ".", "i", "o">>

\* "localhost"
Localhost == <<"l", "o", "c", "a", "l", "h", "o", "s", "t">>

\* c.join(parts)
RECURSIVE JoinWith(_, _)
JoinWith(parts, c) ==
    IF Len(parts) = 0 THEN << >>
    ELSE IF Len(parts) = 1 THEN parts[1]
    ELSE parts[1] \o <<c>> \o JoinWith(Tail(parts), c)

\* s.rsplit(c, 1)[0]: s up to the last occurrence of c
RECURSIVE UpToLast(_, _)
UpToLast(s, c) ==
    IF IndexOf(s, c) = 0 THEN s
    ELSE IF s[Len(s)] = c THEN SubSeq(s, 1, Len(s) - 1)
    ELSE UpToLast(SubSeq(s, 1, Len(s) - 1), c)

\* a variant that cuts at the last ":" only, to test C20
StripLastColon(docker) == UpToLast(SplitOn(docker, "@")[1], ":")

\* docker.split("@")[0].split(":")[0]
StripSuffix(docker) == SplitOn(SplitOn(docker, "@")[1], ":")[1]

\* `c in s` for a character c
HasChar(c, s) == \E i \in DOMAIN s : s[i] = c

\* DockerImageRef.parse(docker)
parse(docker) ==
    LET name == StripSuffix(docker)
        parts == SplitOn(name, "/")
    IN  IF /\ Len(parts) >= 3
           /\ (HasChar(".", parts[1]) \/ HasChar(":", parts[1]) \/ parts[1] = Localhost)
        THEN [registry |-> parts[1], repository |-> JoinWith(Tail(parts), "/")]
        ELSE [registry |-> DockerIo, repository |-> name]

InitImageRef ==
    /\ NoRun
    /\ \E d \in RefTexts :
         probe = [fn |-> "parse", stage |-> "reference", docker |-> d,
                  ref |-> None, again |-> None]

\* DockerImageRef.parse(docker)
Parse ==
    /\ probe.stage = "reference"
    /\ probe' = [probe EXCEPT !.stage = "parsed", !.ref = parse(probe.docker)]
    /\ UNCHANGED run_vars

\* the name parse kept is parsed in its turn
ParseAgain ==
    /\ probe.stage = "parsed"
    /\ probe' = [probe EXCEPT !.stage = "reparsed",
                               !.again = parse(StripSuffix(probe.docker))]
    /\ UNCHANGED run_vars

NextImageRef == Parse \/ ParseAgain

SpecImageRef == InitImageRef /\ [][NextImageRef]_vars

(***************************************************************************)
(* docker/image_ref.py on its own: the properties of a parsed reference,   *)
(* each read once, in any order.                                           *)
(***************************************************************************)
\* registry hosts: the three names of Docker Hub, ghcr.io, and others
RegistryHosts ==
    {"docker.io", "registry-1.docker.io", "index.docker.io", "ghcr.io", "quay.io",
     "localhost", "registry.example.com", "hub.docker.com"}

\* the references whose properties are read
ParsedRefs == [registry : RegistryHosts, repository : {"bluerobotics/cockpit"}]

RefProperties == {"is_dockerhub", "is_ghcr", "registry_url", "auth_url", "auth_service"}

InitRefProperties ==
    /\ NoRun
    /\ \E r \in ParsedRefs :
         probe = [fn |-> "properties", ref |-> r, read |-> {},
                  is_dockerhub |-> FALSE, is_ghcr |-> FALSE,
                  registry_url |-> "", auth_url |-> "", auth_service |-> ""]

\* property `p` of the reference is read and its value `v` kept
ReadProperty(p, v) ==
    /\ probe.fn = "properties"
    /\ p \notin probe.read
    /\ probe' = [probe EXCEPT ![p] = v, !.read = @ \cup {p}]
    /\ UNCHANGED run_vars

ReadIsDockerhub == ReadProperty("is_dockerhub", is_dockerhub(probe.ref))

ReadIsGhcr == ReadProperty("is_ghcr", is_ghcr(probe.ref))

ReadRegistryUrl == ReadProperty("registry_url", registry_url(probe.ref))

ReadAuthUrl == ReadProperty("auth_url", auth_url(probe.ref))

ReadAuthService == ReadProperty("auth_service", auth_service(probe.ref))

NextRefProperties ==
    \/ ReadIsDockerhub
    \/ ReadIsGhcr
    \/ ReadRegistryUrl
    \/ ReadAuthUrl
    \/ ReadAuthService

SpecRefProperties == InitRefProperties /\ [][NextRefProperties]_vars

(***************************************************************************)
(* Extension.sorted_versions on its own: the version map, in the order its *)
(* keys were inserted, and the dict the property returns.                  *)
(***************************************************************************)
MaxKeys == 3

Key_10_0_0 == <<"1", "0", ".", "0", ".", "0">>

Key_2_0_0 == <<"2", ".", "0", ".", "0">>

Key_v1_0_0 == <<"v", "1", ".", "0", ".", "0">>

Key_1_0_0_b == <<"1", ".", "0", ".", "0", "+", "b">>

Key_1_0_0_rc_10 == <<"1", ".", "0", ".", "0", "-", "r", "c", ".", "1", "0">>

Key_1_0_0_rc_2 == <<"1", ".", "0", ".", "0", "-", "r", "c", ".", "2">>

\* keys the version map may hold: each is valid semver
SampleKeys ==
    {Key_10_0_0, Key_2_0_0, Tag_v1_1_0, Tag_1_0_0, Key_v1_0_0, Key_1_0_0_b,
     Key_1_0_0_rc_10, Key_1_0_0_rc_2}

\* the items of a version map, in insertion order: distinct keys
VersionMaps ==
    LET KeySeqs == {ks \in UNION {[1..n -> SampleKeys] : n \in 0..MaxKeys} :
                       \A i, j \in DOMAIN ks : i # j => ks[i] # ks[j]}
    IN  {[i \in DOMAIN ks |-> [key |-> ks[i], version |-> [tag |-> ks[i]]]] : ks \in KeySeqs}

\* the characters of an identifier, in code point order
CodePoints ==
    <<"-", "0", "1", "2", "3", "4", "5", "6", "7", "8", "9",
      "A", "B", "C", "D", "E", "F", "G", "H", "I", "J", "K", "L", "M",
      "N", "O", "P", "Q", "R", "S", "T", "U", "V", "W", "X", "Y", "Z",
      "a", "b", "c", "d", "e", "f", "g", "h", "i", "j", "k", "l", "m",
      "n", "o", "p", "q", "r", "s", "t", "u", "v", "w", "x", "y", "z">>

Cmp(a, b) == IF a < b THEN -1 ELSE IF a > b THEN 1 ELSE 0

\* comparison of two strings, character by character
RECURSIVE TextCmp(_, _)
TextCmp(a, b) ==
    IF a = << >> \/ b = << >> THEN Cmp(Len(a), Len(b))
    ELSE IF a[1] # b[1] THEN Cmp(IndexOf(CodePoints, a[1]), IndexOf(CodePoints, b[1]))
    ELSE TextCmp(Tail(a), Tail(b))

\* comparison of two prerelease identifiers: numbers by value, a number
\* below a word, words as strings
IdCmp(a, b) ==
    LET num(s) == \A i \in 1..Len(s) : s[i] \in Digits
    IN  IF num(a) /\ num(b) THEN Cmp(NumVal(a), NumVal(b))
        ELSE IF num(a) THEN -1
        ELSE IF num(b) THEN 1
        ELSE TextCmp(a, b)

\* comparison of two lists of prerelease identifiers
RECURSIVE PartsCmp(_, _)
PartsCmp(p, q) ==
    IF p = << >> \/ q = << >> THEN Cmp(Len(p), Len(q))
    ELSE IF IdCmp(p[1], q[1]) # 0 THEN IdCmp(p[1], q[1])
    ELSE PartsCmp(Tail(p), Tail(q))

\* a variant that compares the core only, to test C24
CompareCore(v, w) ==
    IF v.major # w.major THEN Cmp(v.major, w.major)
    ELSE IF v.minor # w.minor THEN Cmp(v.minor, w.minor)
    ELSE Cmp(v.patch, w.patch)

\* the order of two versions, the sort key of sorted_versions: the core
\* numerically, then a release above its prereleases, then the prerelease
\* identifiers; build metadata takes no part
Compare(v, w) ==
    IF v.major # w.major THEN Cmp(v.major, w.major)
    ELSE IF v.minor # w.minor THEN Cmp(v.minor, w.minor)
    ELSE IF v.patch # w.patch THEN Cmp(v.patch, w.patch)
    ELSE IF v.prerelease = << >> /\ w.prerelease = << >> THEN 0
    ELSE IF v.prerelease = << >> THEN 1
    ELSE IF w.prerelease = << >> THEN -1
    ELSE PartsCmp(SplitOn(v.prerelease, "."), SplitOn(w.prerelease, "."))

\* sorted(items, key=..., reverse=True): descending, and items with equal
\* sort keys keep the order they came in
RECURSIVE SortedReverse(_)
SortedReverse(items) ==
    IF items = << >> THEN << >>
    ELSE LET n    == Len(items)
             x    == items[n]
             rest == SortedReverse(SubSeq(items, 1, n - 1))
             \* x goes after every item that is not below it
             pos  == Cardinality({i \in DOMAIN rest :
                        Compare(valid_semver(rest[i].key), valid_semver(x.key)) >= 0})
         IN  SubSeq(rest, 1, pos) \o <<x>> \o SubSeq(rest, pos + 1, Len(rest))

sorted_versions(items) == SortedReverse(items)

InitSorted ==
    /\ NoRun
    /\ \E m \in VersionMaps :
         probe = [fn |-> "sorted", versions |-> m, result |-> None]

\* the property is read
ReadSortedVersions ==
    /\ probe.fn = "sorted"
    /\ probe.result = None
    /\ probe' = [probe EXCEPT !.result = [kind |-> "dict",
                                          items |-> sorted_versions(probe.versions)]]
    /\ UNCHANGED run_vars

NextSorted == ReadSortedVersions

SpecSorted == InitSorted /\ [][NextSorted]_vars

(***************************************************************************)
(* ExtensionVersion.validate_filter_tags on its own.                       *)
(***************************************************************************)
MaxFilterTags == 11

FilterTagsLimit == 10

Uppers == {"A", "B", "C", "D", "E", "F", "G", "H", "I", "J", "K", "L", "M",
           "N", "O", "P", "Q", "R", "S", "T", "U", "V", "W", "X", "Y", "Z"}

\* str.lower, on one character
LowerChar(c) == IF c \in Uppers THEN CodePoints[IndexOf(CodePoints, c) + 26] ELSE c

lower(s) == [i \in DOMAIN s |-> LowerChar(s[i])]

\* str.isalnum: not empty, and letters and digits only
isalnum(s) == s # << >> /\ \A i \in DOMAIN s : s[i] \in Digits \cup Letters \cup Uppers

\* tag.replace("-", "")
WithoutDashes(s) == LET kept(c) == c # "-" IN SelectSeq(s, kept)

FilterTag_A_1 == <<"A", "-", "1">>

FilterTag_b2 == <<"b", "2">>

FilterTag_bang == <<"b", "!">>

FilterTag_dash == <<"-">>

\* the lists given to validate_filter_tags: any sample at the first two
\* places, then "A-1" or "b!"
FilterTagLists ==
    LET any   == {FilterTag_A_1, FilterTag_b2, FilterTag_bang, FilterTag_dash}
        short == UNION {[1..n -> any] : n \in 0..2}
        rest  == UNION {[1..n -> {FilterTag_A_1, FilterTag_bang}] :
                           n \in 0..(MaxFilterTags - 2)}
    IN  short \cup {h \o t : h \in [1..2 -> any], t \in rest}

\* a variant that truncates before it filters, to test C29
validate_filter_tags_truncated_first(tags) ==
    LET valid(tag) == isalnum(WithoutDashes(tag))
        first == SubSeq(tags, 1, IF Len(tags) < FilterTagsLimit THEN Len(tags)
                                 ELSE FilterTagsLimit)
        kept  == SelectSeq(first, valid)
    IN  [i \in DOMAIN kept |-> lower(kept[i])]

validate_filter_tags(tags) ==
    LET valid(tag) == isalnum(WithoutDashes(tag))
        kept  == SelectSeq(tags, valid)
        lowered == [i \in DOMAIN kept |-> lower(kept[i])]
    IN  SubSeq(lowered, 1, IF Len(lowered) < FilterTagsLimit THEN Len(lowered)
                           ELSE FilterTagsLimit)

InitFilterTags ==
    /\ NoRun
    /\ \E l \in FilterTagLists :
         probe = [fn |-> "filter_tags", tags |-> l, result |-> None]

ValidateFilterTags ==
    /\ probe.fn = "filter_tags"
    /\ probe.result = None
    /\ probe' = [probe EXCEPT !.result = [kind |-> "list",
                                          items |-> validate_filter_tags(probe.tags)]]
    /\ UNCHANGED run_vars

NextFilterTags == ValidateFilterTags

SpecFilterTags == InitFilterTags /\ [][NextFilterTags]_vars

(***************************************************************************)
(* The labels of a config blob as __create_version reads them, on their    *)
(* own: a label is absent or a string, and a string is empty, a JSON5 text *)
(* or a text json5.loads rejects.                                          *)
(***************************************************************************)
\* the string ""
EmptyText == [form |-> "empty"]

\* a string that is not JSON5, such as a bare URL
BareText(s) == [form |-> "bare", text |-> s]

\* the JSON5 text of value v
Json5Text(v) == [form |-> "json5", value |-> v]

\* a JSON string
JsonString(s) == [string |-> s]

\* json5.loads: the value of a JSON5 text; the empty string and any other
\* text that is not JSON5 raise a ValueError
json5_loads(s) ==
    IF s.form = "json5" THEN [kind |-> "value", value |-> s.value]
    ELSE [kind |-> "raise", error |-> "ValueError"]

\* the truth value of an optional string: None and "" are false
Truthy(s) == s # None /\ s.form # "empty"

LinkKeys == {"website", "support", "docs", "documentation", "source"}

\* the objects the links label may hold: any keys of LinkKeys; docs is a
\* JSON5 text, a bare URL or ""
LinkDicts ==
    {[k \in K |-> IF k = "docs" THEN dv
                  ELSE IF k = "documentation" THEN Json5Text(JsonString("links.documentation"))
                  ELSE BareText("links." \o k)] :
        K \in SUBSET LinkKeys,
        dv \in {Json5Text(JsonString("links.docs")), BareText("https://docs"), EmptyText}}

\* the labels of a config blob
LabelSets ==
    [links       : {None, EmptyText} \cup {Json5Text(d) : d \in LinkDicts},
     website     : {None, BareText("label.website")},
     support     : {None, BareText("label.support")},
     docs        : {None, EmptyText, Json5Text(JsonString("label.docs"))},
     authors     : {None, EmptyText, Json5Text(<<"author">>)},
     tags        : {None, EmptyText, Json5Text(<<FilterTag_A_1>>)},
     company     : {None, EmptyText, Json5Text([name |-> "company"])},
     permissions : {None, EmptyText}]

\* labels.get(name, default)
LabelGet(labels, name, default) == IF labels[name] # None THEN labels[name] ELSE default

\* a variant that leaves the key in the dict, to test C27
pop_keep(d, key, default) ==
    [value |-> IF key \in DOMAIN d THEN d[key] ELSE default, dict |-> d]

\* dict.pop(key, default): the value under the key, or the default, and the
\* dict without the key
pop(d, key, default) ==
    [value |-> IF key \in DOMAIN d THEN d[key] ELSE default,
     dict  |-> [k \in DOMAIN d \ {key} |-> d[k]]]

\* json5.loads(raw) if raw else None
LoadsIfAny(raw) ==
    IF Truthy(raw) THEN json5_loads(raw) ELSE [kind |-> "value", value |-> None]

\* the part of __create_version that reads the labels: the ExtensionVersion
\* built, or the ValueError raised
VersionFromLabels(labels) ==
    LET raise       == [kind |-> "raise", error |-> "ValueError"]
        authors     == LabelGet(labels, "authors", Json5Text(<< >>))
        links       == json5_loads(LabelGet(labels, "links", Json5Text(<< >>)))
        filter_tags == json5_loads(LabelGet(labels, "tags", Json5Text(<< >>)))
    IN  IF links.kind = "raise" \/ filter_tags.kind = "raise" THEN raise
        ELSE LET documentation == pop(links.value, "documentation", labels.docs)
                 docs_raw      == pop(documentation.dict, "docs", documentation.value)
                 website       == pop(docs_raw.dict, "website", labels.website)
                 support       == pop(website.dict, "support", labels.support)
                 loaded        == json5_loads(authors)
                 docs          == LoadsIfAny(docs_raw.value)
                 company       == LoadsIfAny(labels.company)
                 permissions   == LoadsIfAny(labels.permissions)
             IN  IF \/ loaded.kind = "raise"
                    \/ docs.kind = "raise"
                    \/ company.kind = "raise"
                    \/ permissions.kind = "raise"
                 THEN raise
                 ELSE [kind |-> "ExtensionVersion",
                       website |-> website.value,
                       support |-> support.value,
                       extra_links |-> support.dict,
                       authors |-> loaded.value,
                       filter_tags |-> validate_filter_tags(filter_tags.value),
                       docs |-> docs.value,
                       company |-> company.value,
                       permissions |-> permissions.value]

InitLabels ==
    /\ NoRun
    /\ \E labels \in LabelSets :
         probe = [fn |-> "labels", labels |-> labels, result |-> None]

CreateVersion ==
    /\ probe.fn = "labels"
    /\ probe.result = None
    /\ probe' = [probe EXCEPT !.result = VersionFromLabels(probe.labels)]
    /\ UNCHANGED run_vars

NextLabels == CreateVersion

SpecLabels == InitLabels /\ [][NextLabels]_vars

(***************************************************************************)
(* DockerRegistry.get and __raise_pretty on their own: one response, by    *)
(* its status and its body.                                                *)
(***************************************************************************)
MaxErrors == 2

\* the status from which a response is an error
ErrorStatus == 400

Statuses == {200, 304, 399, 400, 404, 429, 500}

\* an entry of the `errors` list: an object with or without `code` and
\* `message`
ErrorEntries ==
    {[kind |-> "object", code |-> c, message |-> m] : c \in {"DENIED", "MANIFEST_UNKNOWN"},
                                                     m \in {"access denied"}}
    \cup {[kind |-> "object", code |-> "DENIED"], [kind |-> "object", message |-> "no code"],
          [kind |-> "object"]}

\* the bodies of a response: a JSON object without `errors`, with `errors`
\* null, with a list of entries, or a body that is not JSON (an HTML page of
\* a proxy, a plain text)
ResponseBodies ==
    {[kind |-> "json", has_errors |-> FALSE], [kind |-> "json", errors_null |-> TRUE],
     [kind |-> "not_json"]}
    \cup {[kind |-> "json", errors |-> l] :
             l \in UNION {[1..n -> ErrorEntries] : n \in 0..MaxErrors}}

\* `await resp.json()` with the default content type: the decoded object,
\* or the error aiohttp raises for a body that is not JSON
RespJson(body) ==
    IF body.kind = "json" THEN [kind |-> "value", value |-> body]
    ELSE [kind |-> "raise", exception |-> "ContentTypeError"]

\* dict.get(key, default) on an object of the body
ObjectGet(object, key, default) == IF key \in DOMAIN object THEN object[key] ELSE default

\* a variant that reports the last entry, to test C31
raise_pretty_last(status, body) ==
    LET json == RespJson(body)
    IN  IF json.kind = "raise" THEN json
        ELSE LET errors == ObjectGet(json.value, "errors", << >>)
                 error  == IF errors # << >> THEN errors[Len(errors)] ELSE [kind |-> "object"]
             IN  [kind |-> "raise", exception |-> "Exception", status |-> status,
                  code |-> ObjectGet(error, "code", "Unknown Code"),
                  message |-> ObjectGet(error, "message", "Unknown Message")]

\* __raise_pretty: the Exception raised, with the code and message of the
\* first entry of `errors`; `errors` of null counts as no entry
raise_pretty(status, body) ==
    LET json == RespJson(body)
    IN  IF json.kind = "raise" THEN json
        ELSE LET errors == ObjectGet(json.value, "errors", << >>)
                 error  == IF errors # << >> THEN errors[1] ELSE [kind |-> "object"]
             IN  [kind |-> "raise", exception |-> "Exception", status |-> status,
                  code |-> ObjectGet(error, "code", "Unknown Code"),
                  message |-> ObjectGet(error, "message", "Unknown Message")]

\* DockerRegistry.get once the response is there: `resp.json` with
\* content_type=None decodes whatever the content type, and raises on a
\* body that is not JSON
get(status, body) ==
    IF status >= ErrorStatus THEN raise_pretty(status, body)
    ELSE IF body.kind = "json" THEN [kind |-> "return", data |-> body]
    ELSE [kind |-> "raise", exception |-> "JSONDecodeError"]

InitGet ==
    /\ NoRun
    /\ \E status \in Statuses, body \in ResponseBodies :
         probe = [fn |-> "get", status |-> status, body |-> body, result |-> None]

\* the response arrives
GetResponse ==
    /\ probe.fn = "get"
    /\ probe.result = None
    /\ probe' = [probe EXCEPT !.result = get(probe.status, probe.body)]
    /\ UNCHANGED run_vars

NextGet == GetResponse

SpecGet == InitGet /\ [][NextGet]_vars

(***************************************************************************)
(* DockerHub.get_tags and DockerRegistry.list_tags on their own: a         *)
(* repository with a number of published tags, and the one request each    *)
(* listing makes.                                                          *)
(***************************************************************************)
MaxPublished == 26

\* the page_size parameter of get_tags
PageSize == 25

\* the page parameter of get_tags
Page == 1

\* the published tags of a repository with n tags, the last updated first
Published(n) == [i \in 1..n |-> i]

\* the most a registry puts in one answer of tags/list when no `n` is
\* asked for: everything (None), or a page of its own choosing
ServerPages == {None, [kind |-> "page", size |-> 2], [kind |-> "page", size |-> 25]}

Min(a, b) == IF a < b THEN a ELSE b

\* the answer of the Hub to page `page` of size `size`
HubPage(published, page, size) ==
    [kind |-> "TagList",
     results |-> SubSeq(published, (page - 1) * size + 1, Min(Len(published), page * size)),
     next |-> Len(published) > page * size]

\* DockerHub.get_tags: the results of the one page asked for; `next` is
\* not read
get_tags(published) == HubPage(published, Page, PageSize).results

\* DockerRegistry.list_tags: the tags of the one answer; the Link header
\* that announces more is not read
list_tags(published, server) ==
    IF server = None THEN published
    ELSE SubSeq(published, 1, Min(Len(published), server.size))

InitListing ==
    /\ NoRun
    /\ \E n \in 0..MaxPublished, server \in ServerPages :
         probe = [fn |-> "listing", published |-> Published(n), server |-> server,
                  by |-> "none", tags |-> << >>]

\* inflate() of an extension on Docker Hub lists the tags
HubGetTags ==
    /\ probe.fn = "listing"
    /\ probe.by = "none"
    /\ probe.server = None
    /\ probe' = [probe EXCEPT !.by = "get_tags", !.tags = get_tags(probe.published)]
    /\ UNCHANGED run_vars

\* inflate() of an extension on another registry lists the tags
RegistryListTags ==
    /\ probe.fn = "listing"
    /\ probe.by = "none"
    /\ probe' = [probe EXCEPT !.by = "list_tags",
                              !.tags = list_tags(probe.published, probe.server)]
    /\ UNCHANGED run_vars

NextListing ==
    \/ HubGetTags
    \/ RegistryListTags

SpecListing == InitListing /\ [][NextListing]_vars

(***************************************************************************)
(* DockerAuthAPI on its own: the constructor chooses the Authorization     *)
(* header from its arguments and the environment, get_token sends it.      *)
(***************************************************************************)
Services == {"registry.docker.io", "ghcr.io", "quay.io"}

EnvNames == {"DOCKER_USERNAME", "DOCKER_PASSWORD", "GITHUB_TOKEN", "GH_TOKEN"}

\* a value of an optional string: None, the empty string or a text
Str(s) == [kind |-> "str", value |-> s]

\* the values each optional argument and each variable is drawn from
Arguments(text) == {None, Str(""), Str(text)}

\* os.environ: the variables that are set, and their values
Environments ==
    [EnvNames -> {None, Str(""), Str("secret")}]

\* name in os.environ
InEnviron(environ, name) == environ[name] # None

\* truth value of an optional string
IsSet(s) == s # None /\ s.value # ""

\* a or b
Or(a, b) == IF IsSet(a) THEN a ELSE b

\* base64.b64encode(text.encode()).decode(): one to one
b64encode(text) == [base64 |-> text]

Basic(user, pass) == [scheme |-> "Basic", credentials |-> b64encode(user \o ":" \o pass)]

\* DockerAuthAPI.__init__ with the environment credentials of Docker Hub
\* taken for every service
auth_header_any_service(service, username, password, environ) ==
    IF IsSet(username) /\ IsSet(password)
    THEN Basic(username.value, password.value)
    ELSE IF InEnviron(environ, "DOCKER_USERNAME") /\ InEnviron(environ, "DOCKER_PASSWORD")
         THEN Basic(environ["DOCKER_USERNAME"].value, environ["DOCKER_PASSWORD"].value)
    ELSE IF service = "ghcr.io"
         THEN LET github_token == Or(environ["GITHUB_TOKEN"], environ["GH_TOKEN"])
              IN IF IsSet(github_token) THEN Basic("token", github_token.value) ELSE None
    ELSE None

\* DockerAuthAPI.__init__: the value of __auth_header
auth_header(service, username, password, environ) ==
    IF IsSet(username) /\ IsSet(password)
    THEN Basic(username.value, password.value)
    ELSE IF service = "registry.docker.io"
         THEN IF InEnviron(environ, "DOCKER_USERNAME") /\ InEnviron(environ, "DOCKER_PASSWORD")
              THEN Basic(environ["DOCKER_USERNAME"].value, environ["DOCKER_PASSWORD"].value)
              ELSE None
    ELSE IF service = "ghcr.io"
         THEN LET github_token == Or(environ["GITHUB_TOKEN"], environ["GH_TOKEN"])
              IN IF IsSet(github_token) THEN Basic("token", github_token.value) ELSE None
    ELSE None

\* the headers of the request of get_token
token_headers(header) ==
    IF header # None THEN [Authorization |-> header] ELSE [none |-> TRUE]

InitAuth ==
    /\ NoRun
    /\ \E service \in Services, username \in Arguments("user"),
          password \in Arguments("pass"), environ \in Environments :
         probe = [fn |-> "auth", service |-> service, username |-> username,
                  password |-> password, environ |-> environ,
                  at |-> "new", header |-> None, sent |-> None]

\* DockerAuthAPI(auth_url, service, username, password)
AuthInit ==
    /\ probe.fn = "auth"
    /\ probe.at = "new"
    /\ probe' = [probe EXCEPT !.at = "constructed",
                              !.header = auth_header(probe.service, probe.username,
                                                     probe.password, probe.environ)]
    /\ UNCHANGED run_vars

\* get_token(repo): the request is sent
AuthGetToken ==
    /\ probe.fn = "auth"
    /\ probe.at = "constructed"
    /\ probe' = [probe EXCEPT !.at = "sent",
                              !.sent = [service |-> probe.service,
                                        headers |-> token_headers(probe.header)]]
    /\ UNCHANGED run_vars

NextAuth == AuthInit \/ AuthGetToken

SpecAuth == InitAuth /\ [][NextAuth]_vars

(***************************************************************************)
(* One call of get_manifest on its own, with the attempts of the retried   *)
(* GET: __check_token and the header come before self.get, and the         *)
(* RetryClient inside self.get sends the request it was given, again after *)
(* an attempt failed. Which failures it retries is the library's matter:   *)
(* here any failed attempt may be retried while attempts are left.         *)
(***************************************************************************)
MaxClock == 3

MaxIssued == 3

\* max_retries, the attempts of ExponentialRetry
max_retries == 5

\* the body the token endpoint answers with: a token that lives one second
ShortLived == [token |-> "bearer", expires_in |-> 1]

InitRetry ==
    /\ NoRun
    /\ \E cached \in {None, AuthToken(ShortLived, Bearer(1), 0)}, clock \in {0, 1} :
         probe = [fn |-> "retry", at |-> "call", cached |-> cached,
                  issued |-> IF cached = None THEN 0 ELSE 1,
                  clock |-> clock, header |-> None, sent |-> << >>]

\* get_manifest up to its first suspension: __check_token, then, with a
\* token in hand, the header and self.get
RetryCall ==
    /\ probe.fn = "retry"
    /\ probe.at = "call"
    /\ IF probe.cached = None \/ is_expired(probe.cached, probe.clock)
       THEN probe' = [probe EXCEPT !.at = "wait_token"]
       ELSE probe' = [probe EXCEPT !.at = "send", !.header = probe.cached.token]
    /\ UNCHANGED run_vars

\* the token arrives: it is stored, the header is built and self.get called
RetryTokenResponse ==
    /\ probe.fn = "retry"
    /\ probe.at = "wait_token"
    /\ probe.issued < MaxIssued
    /\ LET tok == AuthToken(ShortLived, Bearer(probe.issued + 1), probe.clock)
       IN probe' = [probe EXCEPT !.at = "send", !.cached = tok, !.header = tok.token,
                                 !.issued = @ + 1]
    /\ UNCHANGED run_vars

\* session.get(url, headers=header): one attempt is sent, with the header
\* self.get was called with
RetryAttempt ==
    /\ probe.fn = "retry"
    /\ probe.at = "send"
    /\ Len(probe.sent) < max_retries
    /\ probe' = [probe EXCEPT !.at = "wait",
                              !.sent = Append(@, [bearer |-> probe.header,
                                                  cached |-> probe.cached,
                                                  clock |-> probe.clock])]
    /\ UNCHANGED run_vars

\* the attempt is answered: the call returns, or the attempt failed and is
\* retried, or it failed and was the last
RetryAnswer ==
    /\ probe.fn = "retry"
    /\ probe.at = "wait"
    /\ \E failed \in BOOLEAN :
         probe' = [probe EXCEPT !.at = IF ~failed THEN "returned"
                                       ELSE IF Len(probe.sent) < max_retries THEN "send"
                                       ELSE "raised"]
    /\ UNCHANGED run_vars

\* a second passes, while the call awaits an answer or backs off
RetryTick ==
    /\ probe.fn = "retry"
    /\ probe.at \in {"wait_token", "wait"}
    /\ probe.clock < MaxClock
    /\ probe' = [probe EXCEPT !.clock = @ + 1]
    /\ UNCHANGED run_vars

\* another task of the same client finds the token expired in its own
\* __check_token and stores a new one
RetryOtherTask ==
    /\ probe.fn = "retry"
    /\ probe.at = "wait"
    /\ probe.cached # None
    /\ is_expired(probe.cached, probe.clock)
    /\ probe.issued < MaxIssued
    /\ probe' = [probe EXCEPT !.cached = AuthToken(ShortLived, Bearer(probe.issued + 1), probe.clock),
                              !.issued = @ + 1]
    /\ UNCHANGED run_vars

NextRetry ==
    \/ RetryCall
    \/ RetryTokenResponse
    \/ RetryAttempt
    \/ RetryAnswer
    \/ RetryTick
    \/ RetryOtherTask

SpecRetry == InitRetry /\ [][NextRetry]_vars

(***************************************************************************)
(* DockerHub.get_tags on its own: fromdict builds the TagList, its Tags    *)
(* and their TagImages out of the body of the answer.                      *)
(***************************************************************************)
MaxRecords == 3

\* the status of an image of a record of the listing
ImageStatuses == {"active", "inactive", "deleted"}

\* TagImage.__post_init__: the statuses it lets pass
valid_statuses == {"active", "inactive"}

\* the names of the records of a listing, by position
RecordNames == <<Tag_1_0_0, Tag_v1_1_0, Tag_latest, <<"2", ".", "0", ".", "0">>>>

\* the image lists of a record, by the status of each image
RecordImages ==
    {<< >>, <<"active">>, <<"inactive">>, <<"deleted">>, <<"active", "deleted">>}

\* the bodies of the answer: up to MaxRecords records
HubBodies ==
    UNION {{[i \in 1..n |-> [name |-> RecordNames[i], images |-> imgs[i]]] :
               imgs \in [1..n -> RecordImages]} : n \in 0..MaxRecords}

\* the record is well formed: TagImage(...) is built for each of its images
WellFormed(record) ==
    \A i \in DOMAIN record.images : record.images[i] \in valid_statuses

\* fromdict(TagList, body): every record is built, the ValueError of one
\* __post_init__ leaves fromdict
fromdict_TagList(body) ==
    IF \A i \in DOMAIN body : WellFormed(body[i])
    THEN [kind |-> "TagList", results |-> body]
    ELSE [kind |-> "raise", exception |-> "ValueError"]

InitHubTags ==
    /\ NoRun
    /\ \E body \in HubBodies : probe = [fn |-> "hub_tags", body |-> body, result |-> None]

\* the Hub has answered get_tags with 200 and this body
DecodeTags ==
    /\ probe.fn = "hub_tags"
    /\ probe.result = None
    /\ probe' = [probe EXCEPT !.result = fromdict_TagList(probe.body)]
    /\ UNCHANGED run_vars

NextHubTags == DecodeTags

SpecHubTags == InitHubTags /\ [][NextHubTags]_vars

(***************************************************************************)
(* The readme of __create_version on its own: the url made of the label,   *)
(* fetch_readme and process_readme_md.                                     *)
(***************************************************************************)
MaxPieces == 3

\* "{tag}"
Placeholder == <<"{", "t", "a", "g", "}">>

\* "http"
Http == <<"h", "t", "t", "p">>

\* the texts a readme label is made of, around its placeholders: nothing,
\* "http:", "/R" and the opening "{t" of a placeholder
PieceTexts == {<< >>, Http \o <<":">>, <<"/", "R">>, <<"{", "t">>}

\* the pieces of a label: the label is the pieces with "{tag}" in between
LabelPieces == UNION {[1..n -> PieceTexts] : n \in 1..MaxPieces}

\* the pieces with text `sep` in between
RECURSIVE Between(_, _)
Between(pieces, sep) ==
    IF Len(pieces) = 1 THEN pieces[1]
    ELSE pieces[1] \o sep \o Between(Tail(pieces), sep)

\* the tag names of the resolved tag: two sample names and the text "http"
ReadmeTagNames == {Tag_1_0_0, Tag_v1_1_0, Http}

\* s.startswith(prefix)
startswith(s, prefix) ==
    Len(s) >= Len(prefix) /\ SubSeq(s, 1, Len(prefix)) = prefix

\* a variant that replaces the first occurrence only, to test C39
RECURSIVE replace_once(_, _, _)
replace_once(s, old, new) ==
    IF Len(s) < Len(old) THEN s
    ELSE IF SubSeq(s, 1, Len(old)) = old
    THEN new \o SubSeq(s, Len(old) + 1, Len(s))
    ELSE <<s[1]>> \o replace_once(Tail(s), old, new)

\* s.replace(old, new): every occurrence, from the left, without overlap
RECURSIVE replace(_, _, _)
replace(s, old, new) ==
    IF Len(s) < Len(old) THEN s
    ELSE IF SubSeq(s, 1, Len(old)) = old
    THEN new \o replace(SubSeq(s, Len(old) + 1, Len(s)), old, new)
    ELSE <<s[1]>> \o replace(Tail(s), old, new)

Text(s) == [kind |-> "text", chars |-> s]

\* what the GET of fetch_readme ends with: no answer, or a status and a
\* content type
ReadmeAnswers ==
    {[kind |-> "network_error"]}
        \cup [kind : {"response"}, status : {200, 304, 404, 500},
              content_type : {"text/plain", "text/html"}]

\* fetch_readme(url) once the GET has ended: the text, or an exception
fetch_readme(answer) ==
    IF answer.kind = "network_error" THEN [kind |-> "raise"]
    ELSE IF answer.status # 200 THEN [kind |-> "raise"]
    ELSE IF answer.content_type # "text/plain" THEN [kind |-> "raise"]
    ELSE [kind |-> "return", text |-> Str("fetched text")]

InitReadme ==
    /\ NoRun
    /\ \E tag_name \in ReadmeTagNames :
         \E l \in {None} \cup {[pieces |-> p] : p \in LabelPieces} :
            probe = [fn |-> "readme", tag_name |-> tag_name,
                     pieces |-> IF l = None THEN None ELSE l,
                     label |-> IF l = None THEN None ELSE Text(Between(l.pieces, Placeholder)),
                     at |-> "labels", url |-> None, fetched |-> << >>, answer |-> None,
                     processed |-> None, readme |-> None, warnings |-> 0]

\* labels.get("readme", None) up to the first await: without a label
\* nothing is done; the url is made and fetch_readme either raises at once,
\* for a url that does not start with http, or sends its GET
ReadmeUrl ==
    /\ probe.fn = "readme"
    /\ probe.at = "labels"
    /\ IF probe.label = None
       THEN probe' = [probe EXCEPT !.at = "done"]
       ELSE LET url == replace(probe.label.chars, Placeholder, probe.tag_name)
            IN  IF ~startswith(url, Http)
                THEN probe' = [probe EXCEPT !.at = "done", !.url = Text(url),
                                            !.readme = Str("No README available"),
                                            !.warnings = @ + 1]
                ELSE probe' = [probe EXCEPT !.at = "wait_readme", !.url = Text(url),
                                            !.fetched = Append(@, url)]
    /\ UNCHANGED run_vars

\* the GET has ended: on an exception the warning and the fixed text, else
\* the text goes to process_readme_md with the url cut at its last "/"
ReadmeFetched ==
    /\ probe.fn = "readme"
    /\ probe.at = "wait_readme"
    /\ \E answer \in ReadmeAnswers :
         LET got == fetch_readme(answer)
         IN  IF got.kind = "raise"
             THEN probe' = [probe EXCEPT !.at = "done", !.answer = answer,
                                         !.readme = Str("No README available"),
                                         !.warnings = @ + 1]
             ELSE probe' = [probe EXCEPT !.at = "wait_process", !.answer = answer,
                                         !.readme = got.text,
                                         !.url = Text(UpToLast(probe.url.chars, "/"))]
    /\ UNCHANGED run_vars

\* process_readme_md has ended: its text, or on an exception the warning
\* and the text as fetched
ReadmeProcessed ==
    /\ probe.fn = "readme"
    /\ probe.at = "wait_process"
    /\ \E ok \in BOOLEAN :
         IF ok
         THEN probe' = [probe EXCEPT !.at = "done", !.processed = Str("ok"),
                                     !.readme = Str("processed text")]
         ELSE probe' = [probe EXCEPT !.at = "done", !.processed = Str("raise"),
                                     !.warnings = @ + 1]
    /\ UNCHANGED run_vars

NextReadme == ReadmeUrl \/ ReadmeFetched \/ ReadmeProcessed

SpecReadme == InitReadme /\ [][NextReadme]_vars

(***************************************************************************)
(* Properties. They are stated over the history `calls`, the log and the   *)
(* version map, with the sample texts spelled out.                         *)
(***************************************************************************)
\* the platforms the embedded target runs: linux on arm or arm64
ArmLinux(p) == p.os = <<"l", "i", "n", "u", "x">>
               /\ p.architecture \in {<<"a", "r", "m">>, <<"a", "r", "m", "6", "4">>}

\* the positions of the linux/arm entries of a manifest list
ArmLinuxAt(m) == {i \in DOMAIN m.manifests : ArmLinux(m.manifests[i].platform)}

FirstArmLinux(m) == CHOOSE i \in ArmLinuxAt(m) : \A j \in ArmLinuxAt(m) : i <= j

\* the sample tag names that are valid semver after one optional leading v
SemverNames == {<<"1", ".", "0", ".", "0">>, <<"v", "1", ".", "1", ".", "0">>}

\* call i of tag t was answered without error
Good(t, i) == i \in DOMAIN calls[t] /\ calls[t][i].got.kind \notin {"pending", "error"}

\* the manifest of tag t was fetched and names an image, here or at the
\* digest of its first linux/arm entry; i is the position of the blob call
ResolvedAt(t, i) ==
    /\ Good(t, 1)
    /\ calls[t][1].op = "manifest"
    /\ \/ i = 2 /\ calls[t][1].got.kind = "ImageManifest"
       \/ /\ i = 3
          /\ calls[t][1].got.kind = "ManifestList"
          /\ ArmLinuxAt(calls[t][1].got) # {}
          /\ Good(t, 2)
          /\ calls[t][2].op = "refetch"
          /\ calls[t][2].got.kind = "ImageManifest"

\* the blob of tag t was fetched at position i and its metadata decodes
DecodedAt(t, i) ==
    /\ Good(t, i)
    /\ calls[t][i].op = "blob"
    /\ calls[t][i].got.early
    /\ calls[t][i].got.late
    /\ calls[t][i].got.readme => i + 1 \in DOMAIN calls[t] /\ calls[t][i + 1].got.kind # "pending"

\* the own resolution of tag t succeeded: semver check, manifest fetch,
\* embedded-digest resolution, blob fetch, metadata decode
OwnSuccess(t) ==
    /\ t \in SemverNames
    /\ \E i \in 2..3 : ResolvedAt(t, i) /\ DecodedAt(t, i)

\* C1: when inflate() resolves the listed tags concurrently, in every state
\* the version map holds exactly the tags whose task has ended and whose
\* own resolution succeeded, whatever the other tasks did; once inflate()
\* has returned every started task has ended, so the final map is exactly
\* the set of listed tags that individually succeeded; and no step of any
\* task removes or changes the entry of another tag.
C1_ConcurrentIsolation ==
    /\ [](arg = None =>
            /\ \A t \in TagNames :
                 t \in DOMAIN versions <=> (t \in listed /\ pc[t] = "done" /\ OwnSuccess(t))
            /\ pc[Coord] = "done" => \A t \in TagNames : pc[t] \in {"idle", "done"})
    /\ [][\A k \in DOMAIN versions : k \in DOMAIN versions' /\ versions'[k] = versions[k]]_vars

\* two tags were listed, the blob fetch of one failed and the other is
\* recorded, inflate() has returned
C1_Witness ==
    /\ arg = None
    /\ pc[Coord] = "done"
    /\ listed = SemverNames
    /\ DOMAIN versions = {<<"1", ".", "0", ".", "0">>}
    /\ LET t == <<"v", "1", ".", "1", ".", "0">>
       IN  /\ calls[t] # << >>
           /\ calls[t][Len(calls[t])].op = "blob"
           /\ calls[t][Len(calls[t])].got = HttpError

\* C2: a tag whose name is not valid semver after dropping one optional
\* leading v ("latest", "vv1.0.0") is never in the version map and its task
\* never waits on a request: no token request, no manifest fetch, no blob
\* fetch; when its task has run, the only trace is one error in the log.
C2_InvalidSemverSkipped ==
    \A t \in {<<"l", "a", "t", "e", "s", "t">>, <<"v", "v", "1", ".", "0", ".", "0">>} :
        /\ t \notin DOMAIN versions
        /\ calls[t] = << >>
        /\ inflight[t] = None
        /\ pc[t] \in {"idle", "ready", "done"}
        /\ pc[t] = "done" => log[t] =
                    <<[status |-> "ERROR", about |-> t, message |-> "Invalid tag name"]>>

\* the listing returned "latest" beside a valid tag, the task of "latest"
\* has run and inflate() has returned
C2_Witness ==
    /\ arg = None
    /\ pc[Coord] = "done"
    /\ <<"l", "a", "t", "e", "s", "t">> \in listed
    /\ pc[<<"l", "a", "t", "e", "s", "t">>] = "done"
    /\ versions # << >>

\* C3: in every state every key of the version map is a tag that was listed
\* or passed to inflate, is valid semver, and had its manifest fetch, its
\* embedded-digest resolution and its blob fetch succeed; the record under
\* key t has tag = t; a tag with a failed call is never recorded.
C3_VersionMapKeys ==
    \A k \in DOMAIN versions :
        /\ k \in TagNames
        /\ IF arg = None THEN k \in listed ELSE k = arg.name
        /\ k \in SemverNames
        /\ \E i \in 2..3 : ResolvedAt(k, i) /\ Good(k, i) /\ calls[k][i].op = "blob"
        /\ versions[k].tag = k
        /\ \A i \in DOMAIN calls[k] : calls[k][i].op # "readme" => calls[k][i].got.kind # "error"

\* inflate(tag) recorded the tag with a leading v, resolved through a
\* manifest list, although its readme could not be fetched
C3_Witness ==
    /\ arg # None
    /\ <<"v", "1", ".", "1", ".", "0">> \in DOMAIN versions
    /\ ResolvedAt(<<"v", "1", ".", "1", ".", "0">>, 3)
    /\ Len(calls[<<"v", "1", ".", "1", ".", "0">>]) = 4
    /\ calls[<<"v", "1", ".", "1", ".", "0">>][4].got = HttpError

\* C4: for an extension on Docker Hub, when the Hub tag listing succeeded
\* and some listed tag is valid semver and none of its calls failed, then
\* once inflate() has returned the version map has at least one entry and
\* every such tag is recorded.
C4_HubInflateRecords ==
    (/\ image_ref.registry = "docker.io"
     /\ arg = None
     /\ pc[Coord] = "done"
     /\ calls[Coord] # << >>
     /\ calls[Coord][1].op = "hub_tags"
     /\ calls[Coord][1].got.kind = "TagList")
    => \A t \in calls[Coord][1].got.results \cap SemverNames :
          (\A i \in DOMAIN calls[t] : calls[t][i].got.kind # "error")
          => t \in DOMAIN versions

\* tag discovery failed: the one call of the coordinator, the Hub listing
\* or list_tags, raised
DiscoveryFailed ==
    /\ arg = None
    /\ calls[Coord] # << >>
    /\ calls[Coord][1].op \in {"hub_tags", "tags"}
    /\ calls[Coord][1].got.kind = "error"

\* C5: if tag discovery fails (the Hub listing or list_tags raises, a token
\* failure included), inflate() has returned normally, one error is logged
\* under the extension, the version map is empty, no per-tag task was
\* started and the listing was called once.
C5_DiscoveryFailure ==
    DiscoveryFailed =>
        /\ pc[Coord] = "done"
        /\ log[Coord] =
                    <<[status |-> "ERROR", about |-> Coord, message |-> "Unable to fetch tags"]>>
        /\ versions = << >>
        /\ \A t \in TagNames : pc[t] = "idle" /\ calls[t] = << >> /\ log[t] = << >>
        /\ Len(calls[Coord]) = 1
        /\ inflight[Coord] = None

\* list_tags of a registry other than the Hub failed on its token request
C5_Witness ==
    /\ DiscoveryFailed
    /\ image_ref.registry = "ghcr.io"
    /\ calls[Coord][1].op = "tags"
    /\ calls[Coord][1].got = AuthError

\* the manifest of tag t is a list with exactly one linux/arm entry among
\* other entries
OneArmAmongOthers(t) ==
    /\ Good(t, 1)
    /\ calls[t][1].got.kind = "ManifestList"
    /\ Cardinality(ArmLinuxAt(calls[t][1].got)) = 1
    /\ Len(calls[t][1].got.manifests) > 1

\* C6: a tag whose manifest is a single image is resolved by one manifest
\* fetch (at the tag) followed by one blob fetch at the config digest of
\* that manifest; a tag whose manifest is a list with exactly one linux/arm
\* entry among other entries is resolved by one more manifest fetch, at the
\* digest of that entry, and the blob fetch is at the config digest of the
\* re-fetched manifest; no other call of the registry is made, and a
\* recorded tag made all of them.
C6_FetchCounts ==
    \A t \in TagNames : calls[t] # << >> =>
        /\ calls[t][1].op = "manifest" /\ calls[t][1].ref = [kind |-> "tag", name |-> t]
        /\ (Good(t, 1) /\ calls[t][1].got.kind = "ImageManifest") =>
              /\ Len(calls[t]) >= 2 =>
                    calls[t][2].op = "blob" /\ calls[t][2].ref = calls[t][1].got.config
              /\ \A i \in DOMAIN calls[t] : i >= 3 => calls[t][i].op = "readme"
              /\ t \in DOMAIN versions => Good(t, 2)
        /\ OneArmAmongOthers(t) =>
              /\ Len(calls[t]) >= 2 =>
                    /\ calls[t][2].op = "refetch"
                    /\ calls[t][2].ref =
                         calls[t][1].got.manifests[FirstArmLinux(calls[t][1].got)].digest
              /\ Len(calls[t]) >= 3 =>
                    /\ calls[t][2].got.kind = "ImageManifest"
                    /\ calls[t][3].op = "blob"
                    /\ calls[t][3].ref = calls[t][2].got.config
              /\ \A i \in DOMAIN calls[t] : i >= 4 => calls[t][i].op = "readme"
              /\ t \in DOMAIN versions => Good(t, 3)

\* a tag was recorded from a list whose second entry is the linux/arm one:
\* manifest fetch, re-fetch at the digest of entry 2, blob fetch
C6_Witness ==
    \E t \in DOMAIN versions :
        /\ OneArmAmongOthers(t)
        /\ FirstArmLinux(calls[t][1].got) = 2
        /\ calls[t][2].ref = Digest(2)
        /\ calls[t][3].op = "blob"
        /\ calls[t][3].ref = calls[t][2].got.config

\* the warning of the count check of the manifest list of tag t
CountWarning(t) ==
    [status |-> "WARNING", about |-> t, message |-> "Expected one valid manifest"]

Logged(t, entry) == \E i \in DOMAIN log[t] : log[t][i] = entry

\* the manifest of tag t is a list whose number of linux/arm entries is not one
NotOneArm(t) ==
    /\ Good(t, 1)
    /\ calls[t][1].got.kind = "ManifestList"
    /\ Cardinality(ArmLinuxAt(calls[t][1].got)) # 1

\* the second call of tag t is the re-fetch at the digest of the first
\* linux/arm entry of its manifest list
RefetchedFirstArm(t) ==
    /\ Len(calls[t]) >= 2
    /\ calls[t][2].op = "refetch"
    /\ ArmLinuxAt(calls[t][1].got) # {} =>
         calls[t][2].ref = calls[t][1].got.manifests[FirstArmLinux(calls[t][1].got)].digest

\* C7, as stated: when the number of linux/arm entries of a manifest list
\* differs from one, a warning is logged and resolution proceeds: the digest
\* of the first compatible entry in list order is re-fetched.
C7_AsStated ==
    \A t \in TagNames : NotOneArm(t) => Logged(t, CountWarning(t)) /\ RefetchedFirstArm(t)

\* C7, amended: when the number of linux/arm entries of a manifest list
\* differs from one, a warning is logged; when it is greater than one the
\* digest of the first compatible entry in list order is re-fetched; when
\* it is zero resolution of the tag fails there: nothing is re-fetched, one
\* error follows the warning and the tag is not recorded.
C7_CountNotOne ==
    \A t \in TagNames : NotOneArm(t) =>
        /\ Logged(t, CountWarning(t))
        /\ ArmLinuxAt(calls[t][1].got) # {} => RefetchedFirstArm(t)
        /\ ArmLinuxAt(calls[t][1].got) = {} =>
              /\ Len(calls[t]) = 1
              /\ pc[t] = "done"
              /\ t \notin DOMAIN versions
              /\ log[t] = <<CountWarning(t),
                             [status |-> "ERROR", about |-> t,
                              message |-> "Failed to generate version"]>>

\* a list with two linux/arm entries: the warning is logged, the digest of
\* entry 1 was re-fetched and the tag is recorded
C7_Witness ==
    \E t \in DOMAIN versions :
        /\ NotOneArm(t)
        /\ ArmLinuxAt(calls[t][1].got) = {1, 2}
        /\ calls[t][2].ref = Digest(1)
        /\ Logged(t, CountWarning(t))

\* the manifest re-fetched for tag t is again a list
RefetchedList(t) ==
    /\ Good(t, 2)
    /\ calls[t][2].op = "refetch"
    /\ calls[t][2].got.kind = "ManifestList"

\* C8: if the manifest re-fetched at the digest of the chosen entry is
\* itself a list, resolution of the tag fails: the re-fetch is its last
\* call (no blob fetch, no third manifest fetch), an error is logged and
\* the tag is not in the version map; no tag ever makes more than two
\* manifest fetches.
C8_RefetchedCollectionFails ==
    \A t \in TagNames :
        /\ Cardinality({i \in DOMAIN calls[t] : calls[t][i].op \in {"manifest", "refetch"}}) <= 2
        /\ RefetchedList(t) =>
              /\ Len(calls[t]) = 2
              /\ pc[t] = "done"
              /\ inflight[t] = None
              /\ t \notin DOMAIN versions
              /\ log[t][Len(log[t])] = [status |-> "ERROR", about |-> t,
                                        message |-> "Failed to generate version"]

\* the re-fetch answered with a list that even holds a linux/arm entry,
\* and inflate() has returned
C8_Witness ==
    /\ pc[Coord] = "done"
    /\ \E t \in TagNames : RefetchedList(t) /\ ArmLinuxAt(calls[t][2].got) # {}

\* C9: an entry of a manifest list is compatible exactly when its os is
\* linux and its architecture contains arm (arm and arm64 match, amd64 and
\* other systems do not): a list is re-fetched exactly when it has such an
\* entry, at the digest of such an entry, and the count warning is logged
\* exactly when their number is not one; a single-image manifest goes to
\* the blob fetch without any platform check.
C9_Compatibility ==
    \A t \in TagNames : Good(t, 1) =>
        IF calls[t][1].got.kind = "ManifestList"
        THEN /\ ArmLinuxAt(calls[t][1].got) # {} <=> Len(calls[t]) >= 2
             /\ Len(calls[t]) >= 2 =>
                   /\ calls[t][2].op = "refetch"
                   /\ \E i \in ArmLinuxAt(calls[t][1].got) :
                        calls[t][2].ref = calls[t][1].got.manifests[i].digest
             /\ Logged(t, CountWarning(t)) <=> Cardinality(ArmLinuxAt(calls[t][1].got)) # 1
        ELSE /\ Len(calls[t]) >= 2
             /\ calls[t][2].op = "blob"
             /\ ~Logged(t, CountWarning(t))

\* a list of a linux/amd64 entry and a linux/arm64 entry: the second one
\* is re-fetched, without a warning
C9_Witness ==
    \E t \in TagNames :
        /\ Good(t, 1)
        /\ calls[t][1].got.kind = "ManifestList"
        /\ Len(calls[t][1].got.manifests) = 2
        /\ calls[t][1].got.manifests[1].platform =
             [os |-> <<"l", "i", "n", "u", "x">>, architecture |-> <<"a", "m", "d", "6", "4">>]
        /\ calls[t][1].got.manifests[2].platform =
             [os |-> <<"l", "i", "n", "u", "x">>, architecture |-> <<"a", "r", "m", "6", "4">>]
        /\ Len(calls[t]) >= 2
        /\ calls[t][2].ref = Digest(2)
        /\ log[t] = << >>

\* the token endpoint and service of the registry of this extension
OwnAuth ==
    IF image_ref.registry = "ghcr.io"
    THEN [url |-> "https://ghcr.io/token", service |-> "ghcr.io"]
    ELSE [url |-> "https://auth.docker.io/token", service |-> "registry.docker.io"]

\* coroutine c enters a call of the registry client in this step
CallBegins(c) ==
    /\ Len(calls'[c]) = Len(calls[c]) + 1
    /\ calls'[c][Len(calls'[c])].op \in {"manifest", "refetch", "blob", "tags", "rate_limit"}

\* the request of a call of c is built in this step
RequestBuilt(c) ==
    /\ inflight'[c].kind = "registry_request"
    /\ inflight'[c] # inflight[c]

\* C10: every call of get_manifest, get_manifest_blob, list_tags and
\* get_rate_limit first checks the cached token: with none, or an expired
\* one, it asks for a token, at the auth_url and service of this client and
\* for the repository of this client, before anything else; a request is
\* built only with the stored token, which is then not expired, and carries
\* its value; no request is ever in flight while the client has no token.
C10_TokenBeforeRequest ==
    /\ [](\A c \in Callers :
            /\ inflight[c].kind = "registry_request" =>
                  token # None /\ inflight[c].bearer # NoBearer
            /\ inflight[c].kind = "token_request" =>
                  /\ inflight[c].url = OwnAuth.url
                  /\ inflight[c].service = OwnAuth.service
                  /\ inflight[c].scope = "repository:" \o image_ref.repository \o ":pull")
    /\ [][\A c \in Callers :
            /\ CallBegins(c) =>
                  IF token = None \/ now - token.issued_at > token.expires_in
                  THEN inflight'[c].kind = "token_request"
                  ELSE RequestBuilt(c) /\ token' = token
            /\ RequestBuilt(c) =>
                  /\ token' # None
                  /\ now' - token'.issued_at <= token'.expires_in
                  /\ inflight'[c].bearer = token'.token
                  /\ ~CallBegins(c) =>
                        inflight[c].kind = "token_request" /\ token'.issued_at = now']_vars

\* the first token expired, a call asked for a second one, and the request
\* of get_manifest_blob is in flight with the value of the second
C10_Witness ==
    /\ issued = 2
    /\ \E c \in Callers :
         /\ inflight[c].kind = "registry_request"
         /\ inflight[c].op = "blob"
         /\ inflight[c].bearer = [kind |-> "bearer", n |-> 2]
         /\ token.issued_at > 0

\* the bearer value an AuthToken holds, under `token` or under `access_token`
IssuedValue(tok) == IF tok.token # None THEN tok.token ELSE tok.access_token

\* C11: a call that begins while the client holds a token that is not expired
\* builds its request with that token, sends no token request and leaves
\* the token as it is; a token request is sent only while no token is cached
\* or the cached one is expired; and the cached token changes only when a
\* token request is answered, to a new AuthToken holding the value just
\* issued and the time of its construction.
C11_TokenReuse ==
    [][/\ \A c \in Callers :
            /\ (CallBegins(c) /\ token # None /\ now - token.issued_at <= token.expires_in)
                  => /\ RequestBuilt(c)
                     /\ inflight'[c].bearer = token.token
                     /\ calls'[c][Len(calls'[c])].auth = None
                     /\ token' = token
                     /\ issued' = issued
            /\ (inflight'[c].kind = "token_request" /\ inflight[c].kind # "token_request")
                  => token = None \/ now - token.issued_at > token.expires_in
       /\ token' # token =>
            /\ \E c \in Callers : inflight[c].kind = "token_request" /\ RequestBuilt(c)
            /\ issued' = issued + 1
            /\ token'.kind = "AuthToken"
            /\ IssuedValue(token') = [kind |-> "bearer", n |-> issued']
            /\ token'.issued_at = now']_vars

\* a tag whose get_manifest asked for the first token, whose second
\* get_manifest reused it one second later, and whose get_manifest_blob found
\* it expired and had it replaced by the second token
C11_Witness ==
    \E t \in TagNames :
        /\ Len(calls[t]) = 3
        /\ calls[t][1].auth.kind = "token_response"
        /\ calls[t][2].auth = None
        /\ calls[t][3].auth.kind = "token_response"
        /\ inflight[t].kind = "registry_request"
        /\ inflight[t].bearer = [kind |-> "bearer", n |-> 2]
        /\ token.issued_at = 2

\* the coroutines whose token request is in flight
Refreshing == {c \in Callers : inflight[c].kind = "token_request"}

\* C12 as stated: at no time are two token requests of the client in flight.
C12_AsStated == Cardinality(Refreshing) <= 1

\* C12, amended: refresh-then-use is sequential within each call. While the
\* token request of a call is in flight the call has sent no registry
\* request; the registry request of a call that asked for a token is built in
\* the step that answers its token request, with the token stored in that
\* step; and a request in flight belongs to a call that either found a live
\* token or had its own token request answered with a token. Token requests
\* of different coroutines are not ordered against each other.
C12_SequentialPerCall ==
    /\ [](\A c \in Callers :
            LET last == calls[c][Len(calls[c])]
            IN  /\ inflight[c].kind = "token_request" =>
                      /\ pc[c] = "wait_token"
                      /\ last.auth = Pending
                      /\ last.got = Pending
                /\ inflight[c].kind = "registry_request" =>
                      \/ last.auth = None
                      \/ last.auth.kind = "token_response" /\ last.auth.status = 200)
    /\ [][\A c \in Callers :
            (inflight[c].kind = "token_request" /\ inflight'[c] # inflight[c]) =>
                \/ inflight'[c] = None /\ token' = token
                \/ /\ RequestBuilt(c)
                   /\ token' # token
                   /\ inflight'[c].bearer = token'.token]_vars

\* two tags of one listing have each a token request in flight
C12_Witness ==
    \E t1, t2 \in TagNames :
        /\ t1 # t2
        /\ {t1, t2} \subseteq Refreshing
        /\ token # None

\* an AuthToken with all its fields set: a bearer value, a lifetime and the
\* time it was issued
Complete(tok) ==
    /\ tok.kind = "AuthToken"
    /\ IssuedValue(tok).kind = "bearer"
    /\ tok.expires_in \in Nat
    /\ tok.issued_at \in 0..now

C14_IsExpired ==
    (probe.fn = "AuthToken" /\ probe.stage = "read") =>
        LET body == probe.body
            read_at == probe.at + probe.elapsed
            since == IF "issued_at" \in DOMAIN body THEN body.issued_at ELSE probe.at
            life == IF "expires_in" \in DOMAIN body THEN body.expires_in ELSE 60
        IN  /\ probe.is_expired <=> (read_at - since > life)
            /\ "issued_at" \notin DOMAIN body =>
                  /\ probe.elapsed = 0 => ~probe.is_expired
                  /\ "expires_in" \notin DOMAIN body =>
                        (probe.is_expired <=> probe.elapsed >= 61)

\* a token built from a body with a bearer value only, read 60 seconds later
\* and found live
C14_Witness ==
    /\ probe.fn = "AuthToken"
    /\ probe.stage = "read"
    /\ DOMAIN probe.body = {"token"}
    /\ probe.elapsed = 60
    /\ ~probe.is_expired

\* the answer of a token endpoint that get_token turns into a token: status
\* 200 and a body with a non-empty `token` or `access_token`
Grants(r) ==
    /\ r.status = 200
    /\ \/ "token" \in DOMAIN r.body /\ r.body.token = "bearer"
       \/ "access_token" \in DOMAIN r.body /\ r.body.access_token = "bearer"

\* C15, amended: a call whose token request was answered went on to its
\* registry request exactly when the answer had status 200 and a body with a
\* bearer value; on every other answer the call raised as its last act; in
\* the step of that answer the cached token stays what it was and no
\* registry request is sent; and the cached token changes only on an answer
\* of status 200 with a bearer value.
C15_TokenOrRaise ==
    /\ [](\A c \in Callers : \A i \in 1..Len(calls[c]) :
            calls[c][i].auth.kind = "token_response" =>
                IF Grants(calls[c][i].auth)
                THEN calls[c][i].got # AuthError
                ELSE /\ calls[c][i].got = AuthError
                     /\ i = Len(calls[c])
                     /\ inflight[c] = None
                     /\ pc[c] \in {"done", "raised"})
    /\ [][\A c \in Callers :
            (inflight[c].kind = "token_request" /\ inflight'[c] # inflight[c]) =>
                LET r == calls'[c][Len(calls'[c])].auth
                IN  IF Grants(r)
                    THEN token' # token /\ IssuedValue(token').kind = "bearer"
                    ELSE /\ token' = token
                         /\ inflight'[c] = None
                         /\ \A d \in Callers : inflight'[d].kind = "registry_request"
                                                  => inflight'[d] = inflight[d]]_vars

\* C15 as stated: moreover, the token left cached when get_token raises is
\* absent or expired.
C15_AsStated ==
    /\ C15_TokenOrRaise
    /\ [][\A c \in Callers :
            (inflight[c].kind = "token_request" /\ inflight'[c] = None) =>
                token' = None \/ now' - token'.issued_at > token'.expires_in]_vars

\* the first token expired, get_manifest_blob asked for another and the
\* endpoint answered 200 without a bearer value: the call raised, the tag is
\* not recorded, and the expired token is still the cached one
C15_Witness ==
    \E t \in TagNames :
        /\ Len(calls[t]) = 3
        /\ calls[t][3].op = "blob"
        /\ calls[t][3].auth = [kind |-> "token_response", status |-> 200,
                               body |-> [expires_in |-> 1]]
        /\ calls[t][3].got = AuthError
        /\ pc[t] = "done"
        /\ token # None
        /\ token.token = [kind |-> "bearer", n |-> 1]
        /\ now - token.issued_at > token.expires_in
        /\ versions = << >>

\* the body and the result of a finished get_manifest decode
Decoded == probe.fn = "get_manifest" /\ probe.stage = "decoded"

\* C17 as stated: the result is a single image exactly when the body has a
\* `config` key; it is a collection when the body has `manifests` and no
\* `config`; with neither key the call raises.
C17_AsStated ==
    Decoded =>
        LET keys == DOMAIN probe.body
        IN  /\ probe.result.kind = "ImageManifest" <=> "config" \in keys
            /\ ("manifests" \in keys /\ "config" \notin keys)
                  => probe.result.kind = "ManifestList"
            /\ ("manifests" \notin keys /\ "config" \notin keys)
                  => probe.result.kind = "error"

\* C17, amended: the variant is chosen by the `config` key alone, and is
\* returned when the body also has the fields that variant requires. A body
\* with `config` (with or without `manifests`) yields a single image when it
\* has schemaVersion, mediaType and layers, and raises otherwise; a body
\* with `manifests` and no `config` yields a collection when it has
\* schemaVersion and mediaType, and raises otherwise; a body with neither
\* key raises.
C17_TypedByConfig ==
    Decoded =>
        LET keys == DOMAIN probe.body
        IN  /\ probe.result.kind \in {"ImageManifest", "ManifestList", "error"}
            /\ probe.result.kind = "ImageManifest"
                  <=> {"config", "schemaVersion", "mediaType", "layers"} \subseteq keys
            /\ probe.result.kind = "ManifestList"
                  <=> /\ "config" \notin keys
                      /\ {"manifests", "schemaVersion", "mediaType"} \subseteq keys
            /\ probe.result.kind = "ImageManifest"
                  => probe.result.config = probe.body.config.digest

\* a complete body that has both `config` and `manifests`, decoded as a
\* single image
C17_Witness ==
    /\ Decoded
    /\ DOMAIN probe.body = {"schemaVersion", "mediaType", "config", "layers", "manifests"}
    /\ Len(probe.body.manifests) = 1
    /\ probe.result.kind = "ImageManifest"

\* C18: a body with `manifests`, schemaVersion and mediaType and without
\* `config` is decoded to a collection whose entries are exactly the raw
\* entries that have a `platform` key, in their order: the digests of the
\* decoded entries are those of the raw positions with a platform, in
\* increasing position, each with the platform of its raw entry; so no
\* decoded entry lacks a platform and the counts agree.
C18_OnlyPlatformEntries ==
    (/\ Decoded
     /\ "config" \notin DOMAIN probe.body
     /\ {"manifests", "schemaVersion", "mediaType"} \subseteq DOMAIN probe.body) =>
        LET raw == probe.body.manifests
            with == {i \in DOMAIN raw : "platform" \in DOMAIN raw[i]}
            got == probe.result.manifests
        IN  /\ probe.result.kind = "ManifestList"
            /\ Len(got) = Cardinality(with)
            /\ {got[k].digest.hex : k \in DOMAIN got} = with
            /\ \A k \in DOMAIN got :
                  /\ got[k].platform = raw[got[k].digest.hex].platform
                  /\ \A j \in DOMAIN got : j < k => got[j].digest.hex < got[k].digest.hex

\* a list of an attestation entry followed by a platform entry, decoded to
\* the one platform entry, which keeps the digest of the second position
C18_Witness ==
    /\ Decoded
    /\ "config" \notin DOMAIN probe.body
    /\ probe.result.kind = "ManifestList"
    /\ Len(probe.body.manifests) = 2
    /\ "platform" \notin DOMAIN probe.body.manifests[1]
    /\ Len(probe.result.manifests) = 1
    /\ probe.result.manifests[1].digest = [kind |-> "digest", hex |-> 2]

\* parse has returned
Parsed == probe.fn = "parse" /\ probe.stage \in {"parsed", "reparsed"}

\* the name of a reference: the text before its digest ("@...") and, in its
\* last segment, before its tag (":...")
RefName(d) ==
    LET segs == SplitOn(SplitOn(d, "@")[1], "/")
    IN  JoinWith(SubSeq(segs, 1, Len(segs) - 1) \o <<SplitOn(segs[Len(segs)], ":")[1]>>, "/")

\* C19 as stated: when the name of the reference has at least three segments
\* and its first segment contains "." or ":" or is "localhost", parse
\* returns that segment as the registry and the other segments, joined by
\* "/", as the repository; otherwise it returns the registry "docker.io"
\* and the whole name as the repository.
C19_ParseRegistry ==
    Parsed =>
        LET segs == SplitOn(RefName(probe.docker), "/")
        IN  IF /\ Len(segs) >= 3
               /\ \/ \E i \in DOMAIN segs[1] : segs[1][i] \in {".", ":"}
                  \/ segs[1] = <<"l", "o", "c", "a", "l", "h", "o", "s", "t">>
            THEN /\ probe.ref.registry = segs[1]
                 /\ probe.ref.repository = JoinWith(Tail(segs), "/")
            ELSE /\ probe.ref.registry = <<"d", "o", "c", "k", "e", "r", ".", "i", "o">>
                 /\ probe.ref.repository = RefName(probe.docker)

\* C20: the repository parse returns contains neither "@" nor ":", whatever
\* the reference; and the name parse kept is left whole by a second
\* stripping, so that parsing it returns the same registry and repository.
C20_NoSuffixLeft ==
    /\ Parsed =>
          \A i \in DOMAIN probe.ref.repository : probe.ref.repository[i] \notin {"@", ":"}
    /\ (probe.fn = "parse" /\ probe.stage = "reparsed") =>
          /\ StripSuffix(StripSuffix(probe.docker)) = StripSuffix(probe.docker)
          /\ probe.again = probe.ref

\* "ghcr.io/org/repo@sha256:abcdef1234567890" was parsed to the repository
\* "org/repo", and parsing the stripped name gave the same
C20_Witness ==
    /\ probe.fn = "parse"
    /\ probe.stage = "reparsed"
    /\ probe.docker = Ref_ghcr_digest
    /\ probe.ref.repository = <<"o", "r", "g", "/", "r", "e", "p", "o">>
    /\ probe.again.registry = <<"g", "h", "c", "r", ".", "i", "o">>

\* the three names under which the reference means Docker Hub
HubNames == {"docker.io", "registry-1.docker.io", "index.docker.io"}

\* C21: is_dockerhub is true exactly for the registries docker.io,
\* registry-1.docker.io and index.docker.io, is_ghcr exactly for ghcr.io; for
\* those three registries registry_url, auth_url and auth_service are
\* https://registry-1.docker.io, https://auth.docker.io and
\* registry.docker.io; for every other host h they are https://h, https://h
\* and h.
C21_RefProperties ==
    probe.fn = "properties" =>
        LET h == probe.ref.registry
            has(p) == p \in probe.read
        IN  /\ has("is_dockerhub") => (probe.is_dockerhub <=> h \in HubNames)
            /\ has("is_ghcr") => (probe.is_ghcr <=> h = "ghcr.io")
            /\ has("registry_url") =>
                  probe.registry_url = IF h \in HubNames THEN "https://registry-1.docker.io"
                                       ELSE "https://" \o h
            /\ has("auth_url") =>
                  probe.auth_url = IF h \in HubNames THEN "https://auth.docker.io"
                                   ELSE "https://" \o h
            /\ has("auth_service") =>
                  probe.auth_service = IF h \in HubNames THEN "registry.docker.io" ELSE h

\* every property of a reference to index.docker.io has been read
C21_Witness ==
    /\ probe.fn = "properties"
    /\ probe.ref.registry = "index.docker.io"
    /\ probe.read = {"is_dockerhub", "is_ghcr", "registry_url", "auth_url", "auth_service"}
    /\ probe.is_dockerhub
    /\ probe.auth_service = "registry.docker.io"

\* the calls of inflate() itself that ask for the tag set
Listings == {i \in 1..Len(calls[Coord]) : calls[Coord][i].op \in {"hub_tags", "tags"}}

\* C22: the extension has one image reference, which never changes, and one
\* registry client, whose every request goes to the registry URL and the
\* repository of that reference; it has a Hub client exactly when the
\* registry of the reference is one of the three names of Docker Hub;
\* inflate() asks for the tag set once, as its first call: from the Hub
\* client when there is one, and then list_tags is never called, and from
\* list_tags otherwise, and then no Hub request is ever made.
C22_TagSource ==
    /\ [][image_ref' = image_ref]_vars
    /\ [](LET hub == image_ref.registry \in {"docker.io", "registry-1.docker.io",
                                             "index.docker.io"}
              first == calls[Coord][1]
          IN  /\ docker_hub # None <=> hub
              /\ docker_hub # None => docker_hub.repository = image_ref.repository
              /\ \A c \in Callers :
                   /\ inflight[c] # None /\ inflight[c].kind = "registry_request" =>
                        /\ inflight[c].api_url = registry_url(image_ref) \o "/v2"
                        /\ inflight[c].repository = image_ref.repository
                   /\ inflight[c] # None /\ inflight[c].kind = "hub_request" =>
                        /\ hub
                        /\ c = Coord
                        /\ inflight[c].repository = image_ref.repository
                   /\ \A i \in 1..Len(calls[c]) :
                        calls[c][i].op \in {"hub_tags", "tags"} => c = Coord /\ i = 1
              /\ \A i \in Listings : calls[Coord][i].op = IF hub THEN "hub_tags" ELSE "tags"
              /\ arg = None /\ pc[Coord] \notin {"ready", "ready_rate"}
                   /\ first.op # "rate_limit" =>
                     Listings = {1})

\* inflate() on ghcr.io has returned: the tags came from list_tags and one
\* of them is recorded
C22_Witness ==
    /\ image_ref.registry = "ghcr.io"
    /\ docker_hub = None
    /\ arg = None
    /\ pc[Coord] = "done"
    /\ Listings = {1}
    /\ calls[Coord][1].op = "tags"
    /\ listed # {}
    /\ DOMAIN versions # {}

\* the tags for which a resolution task was started
Started == {t \in TagNames : pc[t] # "idle"}

\* the listing of inflate() was answered with a tag set
ListingSucceeded ==
    /\ arg = None
    /\ Listings = {1}
    /\ calls[Coord][1].got.kind \in {"TagList", "tags"}

\* C23: once the listing of inflate() has returned a tag set, a resolution
\* task is started for each listed tag and for no other, all at once; when
\* inflate() has returned each of those tasks has run to its end; and from
\* then on the version map does not change.
C23_OneTaskPerListedTag ==
    /\ [](ListingSucceeded => Started = listed)
    /\ [](ListingSucceeded /\ pc[Coord] = "done" => \A t \in listed : pc[t] = "done")
    /\ [][pc[Coord] = "done" => versions' = versions]_vars

\* the place of each sample key in the order of semantic versions, written
\* out: 10.0.0 above 2.0.0 above v1.1.0 above 1.0.0, v1.0.0 and 1.0.0+b
\* (one version) above 1.0.0-rc.10 above 1.0.0-rc.2
Rank ==
    (Key_10_0_0 :> 6) @@ (Key_2_0_0 :> 5) @@ (Tag_v1_1_0 :> 4) @@
    (Tag_1_0_0 :> 3) @@ (Key_v1_0_0 :> 3) @@ (Key_1_0_0_b :> 3) @@
    (Key_1_0_0_rc_10 :> 2) @@ (Key_1_0_0_rc_2 :> 1)

\* C24: sorted_versions returns a dict, never an error; its items are the
\* items of the version map, each once, the record of a key unchanged; and
\* they stand in descending order of semantic version, one leading v
\* ignored, whatever the order in which the map was filled.
C24_SortedDescending ==
    probe.fn = "sorted" /\ probe.result # None =>
        LET m == probe.versions
            r == probe.result.items
        IN  /\ probe.result.kind = "dict"
            /\ Len(r) = Len(m)
            /\ {r[i] : i \in DOMAIN r} = {m[i] : i \in DOMAIN m}
            /\ \A i, j \in DOMAIN r : i < j => Rank[r[i].key] >= Rank[r[j].key]
            /\ \A i \in DOMAIN m : valid_semver(m[i].key) # None

\* a map filled in ascending order, with a prerelease and a two-digit major,
\* has been sorted
C24_Witness ==
    /\ probe.fn = "sorted"
    /\ probe.result # None
    /\ Len(probe.versions) = 3
    /\ [i \in 1..3 |-> probe.versions[i].key] = <<Key_1_0_0_rc_2, Key_2_0_0, Key_10_0_0>>
    /\ [i \in 1..3 |-> probe.result.items[i].key] = <<Key_10_0_0, Key_2_0_0, Key_1_0_0_rc_2>>

\* C25: every version in the version map has at least one image: each image
\* has a digest, and the error entry for a version without images is never
\* logged, for a recorded tag or for any other.
C25_AtLeastOneImage ==
    /\ \A k \in DOMAIN versions :
         /\ Len(versions[k].images) >= 1
         /\ \A i \in DOMAIN versions[k].images : versions[k].images[i].digest.kind = "digest"
    /\ \A c \in Callers : \A i \in DOMAIN log[c] :
         log[c][i].message # "Could not find images associated with tag"

\* a tag given with a Hub tag without images is recorded with the two
\* images of its manifest list
C25_Witness ==
    /\ arg = HubTag(Tag_1_0_0)
    /\ Tag_1_0_0 \in DOMAIN versions
    /\ Len(versions[Tag_1_0_0].images) = 2
    /\ calls[Tag_1_0_0][1].got.kind = "ManifestList"

\* the digests of a sequence of images
DigestsOf(images) == [i \in DOMAIN images |-> images[i].digest]

\* the images of a Hub tag that are active with a known architecture and a
\* known os: among the samples, ActiveImage alone
UsableOf(tag) ==
    IF tag = None THEN << >>
    ELSE LET usable(image) == image = ActiveImage
         IN  SelectSeq(tag.images, usable)

\* C26: the images of a recorded version are the images of its Hub tag that
\* are active with known architecture and os, with their digest and
\* platform, when there is such an image; when there is no Hub tag, or none
\* of its images is such, they are those of the manifest fetched at the tag:
\* the one image of a single-image manifest, under its config digest, or one
\* image per entry of a list; the tag is recorded all the same and its log
\* has no error entry.
C26_ImagesFromTagOrManifest ==
    \A k \in DOMAIN versions :
        LET usable   == UsableOf(hub_tag(k))
            manifest == calls[k][1].got
            images   == versions[k].images
        IN  /\ \A i \in DOMAIN log[k] : log[k][i].status # "ERROR"
            /\ IF usable # << >>
               THEN /\ DigestsOf(images) = DigestsOf(usable)
                    /\ \A i \in DOMAIN images :
                         /\ images[i].platform.architecture = usable[i].architecture
                         /\ images[i].platform.os = usable[i].os
               ELSE IF manifest.kind = "ImageManifest"
               THEN /\ DigestsOf(images) = <<manifest.config>>
                    /\ images[1].platform.architecture \in {arm64, unknown}
               ELSE /\ manifest.kind = "ManifestList"
                    /\ DigestsOf(images) = DigestsOf(manifest.manifests)
                    /\ \A i \in DOMAIN images :
                         images[i].platform = manifest.manifests[i].platform

\* a tag whose Hub tag has images, none of them active with known platform,
\* is recorded with the image of its manifest
C26_Witness ==
    /\ arg = HubTagWith(Tag_1_0_0, <<InactiveImage, UnknownArchImage>>)
    /\ Tag_1_0_0 \in DOMAIN versions
    /\ calls[Tag_1_0_0][1].got = ImageManifest(Digest(101))
    /\ DigestsOf(versions[Tag_1_0_0].images) = <<Digest(101)>>

\* C29: validate_filter_tags returns the lower-cased form of the tags made
\* of letters, digits and dashes with at least one letter or digit (of the
\* samples: "A-1", returned as "a-1", and "b2"; not "b!" and not "-"), in
\* their order, cut after the tenth: never more than 10 tags, and the tenth
\* valid tag is returned even when invalid tags stand before it.
C29_FilterThenTruncate ==
    probe.fn = "filter_tags" /\ probe.result # None =>
        LET good(tag) == tag \in {FilterTag_A_1, FilterTag_b2}
            kept      == SelectSeq(probe.tags, good)
            r         == probe.result.items
        IN  /\ Len(r) <= 10
            /\ Len(r) = IF Len(kept) < 10 THEN Len(kept) ELSE 10
            /\ \A i \in DOMAIN r :
                 r[i] = IF kept[i] = FilterTag_A_1 THEN <<"a", "-", "1">> ELSE <<"b", "2">>

\* eleven tags, the first invalid: ten are returned, the eleventh tag of the
\* input among them
C29_Witness ==
    /\ probe.fn = "filter_tags"
    /\ probe.result # None
    /\ Len(probe.tags) = 11
    /\ probe.tags[1] = FilterTag_bang
    /\ \A i \in 2..11 : probe.tags[i] = FilterTag_A_1
    /\ Len(probe.result.items) = 10

\* the object of the links label, empty when the label is absent
LinksOf(labels) == IF labels.links = None THEN << >> ELSE labels.links.value

\* the string docs is decoded from: links.docs, else links.documentation,
\* else the docs label
DocsSource(labels) ==
    IF "docs" \in DOMAIN LinksOf(labels) THEN LinksOf(labels)["docs"]
    ELSE IF "documentation" \in DOMAIN LinksOf(labels) THEN LinksOf(labels)["documentation"]
    ELSE labels.docs

\* C27: in the record built from the labels, website is links.website when
\* the links object has that key and the website label otherwise, and the
\* same for support; docs is decoded from links.docs, else from
\* links.documentation, else from the docs label, and a source of higher
\* rank is used even when it is empty (docs is none) or cannot be decoded
\* (no record is built); extra_links is the links object without the keys
\* website, support, docs and documentation.
C27_LinksTakePrecedence ==
    probe.fn = "labels" /\ probe.result # None /\ probe.labels.links # None
      /\ probe.labels.links.form = "json5" =>
        LET labels == probe.labels
            links  == LinksOf(labels)
            r      == probe.result
            named  == {"website", "support", "docs", "documentation"}
        IN  /\ DocsSource(labels) # None /\ DocsSource(labels).form = "bare" => r.kind = "raise"
            /\ r.kind = "ExtensionVersion" =>
                 /\ r.website = IF "website" \in DOMAIN links THEN links["website"]
                                ELSE labels.website
                 /\ r.support = IF "support" \in DOMAIN links THEN links["support"]
                                ELSE labels.support
                 /\ r.docs = IF DocsSource(labels) = None \/ DocsSource(labels).form = "empty"
                             THEN None
                             ELSE DocsSource(labels).value
                 /\ DOMAIN r.extra_links = DOMAIN links \ named
                 /\ \A k \in DOMAIN r.extra_links : r.extra_links[k] = links[k]

\* links has every key and every top-level label is set: the record takes
\* the three values from links and keeps the one other key
C27_Witness ==
    /\ probe.fn = "labels"
    /\ probe.result # None
    /\ probe.result.kind = "ExtensionVersion"
    /\ probe.labels.links # None
    /\ probe.labels.links.form = "json5"
    /\ DOMAIN probe.labels.links.value = LinkKeys
    /\ probe.labels.website # None
    /\ probe.labels.support # None
    /\ probe.labels.docs = Json5Text(JsonString("label.docs"))
    /\ probe.result.website = BareText("links.website")
    /\ probe.result.docs = JsonString("links.docs")
    /\ DOMAIN probe.result.extra_links = {"source"}

\* label `name` is absent or the empty string
AbsentOrEmpty(labels, name) == labels[name] = None \/ labels[name] = EmptyText

\* C28: when each of the labels authors, links, tags, docs, company and
\* permissions is absent or the empty string, a record is built, with no
\* authors, no extra links, no filter tags, and with docs, company and
\* permissions none.
C28_AbsentOrEmptyIsDefault ==
    probe.fn = "labels" /\ probe.result # None
      /\ (\A name \in {"authors", "links", "tags", "docs", "company", "permissions"} :
             AbsentOrEmpty(probe.labels, name)) =>
        /\ probe.result.kind = "ExtensionVersion"
        /\ probe.result.authors = << >>
        /\ probe.result.extra_links = << >>
        /\ probe.result.filter_tags = << >>
        /\ probe.result.docs = None
        /\ probe.result.company = None
        /\ probe.result.permissions = None

C31_ErrorStatusRaisesPretty ==
    probe.fn = "get" /\ probe.result # None /\ probe.status >= 400 =>
        LET body == probe.body
            r    == probe.result
            listed_ == body.kind = "json" /\ "errors" \in DOMAIN body /\ body.errors # << >>
        IN  /\ r.kind = "raise"
            /\ r.exception = "Exception"
            /\ r.status = probe.status
            /\ listed_ /\ "code" \in DOMAIN body.errors[1] => r.code = body.errors[1].code
            /\ listed_ /\ "message" \in DOMAIN body.errors[1] =>
                 r.message = body.errors[1].message
            /\ ~listed_ => r.code = "Unknown Code" /\ r.message = "Unknown Message"

\* C32: the tags a listing returns, by the Hub client or by list_tags, are
\* all the published tags of the repository, however many there are, so
\* that a task is started for every published tag.
C32_FullTagSet ==
    probe.fn = "listing" /\ probe.by # "none" =>
        {probe.tags[i] : i \in DOMAIN probe.tags}
            = {probe.published[i] : i \in DOMAIN probe.published}

\* the positions of the info and error entries in the log of tag t
Terminal(t) == {i \in DOMAIN log[t] : log[t][i].status \in {"INFO", "ERROR"}}

\* a call of tag t on the registry client was answered with an error
RegistryFailure(t) ==
    \E i \in DOMAIN calls[t] : calls[t][i].op # "readme" /\ calls[t][i].got.kind = "error"

\* the fetch of the readme of tag t was answered with an error
ReadmeFailure(t) ==
    \E i \in DOMAIN calls[t] : calls[t][i].op = "readme" /\ calls[t][i].got.kind = "error"

\* C33: no failure leaves the task of a tag: the task ends, and a call on
\* the registry client answered with an error ends it with an error entry,
\* while a failed fetch of the readme, which create_version handles itself,
\* is logged as a warning and ends nothing; the log of a tag whose task has ended holds exactly one info or
\* error entry, its last entry: the info entry exactly when the tag is in
\* the version map, an error entry exactly when it is not; a task that has
\* not ended has logged neither and recorded nothing; and inflate() itself
\* logs no error for the failure of a tag.
C33_OneTerminalEntry ==
    \A t \in TagNames :
        /\ pc[t] # "raised"
        /\ \A i \in DOMAIN log[t] : log[t][i].about = t
        /\ RegistryFailure(t) =>
              /\ pc[t] = "done"
              /\ log[t][Len(log[t])].status = "ERROR"
        /\ ReadmeFailure(t) =>
              \E i \in DOMAIN log[t] : log[t][i].status = "WARNING"
        /\ pc[t] = "done" =>
              /\ Terminal(t) = {Len(log[t])}
              /\ log[t][Len(log[t])].status = "INFO" <=> t \in DOMAIN versions
              /\ log[t][Len(log[t])].status = "ERROR" <=> t \notin DOMAIN versions
        /\ pc[t] # "done" => Terminal(t) = {} /\ t \notin DOMAIN versions
        /\ pc[t] # "idle" => log[Coord] = << >>

\* of two listed tags one is recorded after a warning for its readme, and
\* the other failed on its blob
C33_Witness ==
    /\ arg = None
    /\ pc[Coord] = "done"
    /\ listed = {Tag_1_0_0, Tag_v1_1_0}
    /\ Len(log[Tag_1_0_0]) = 2
    /\ log[Tag_1_0_0][1].status = "WARNING"
    /\ log[Tag_1_0_0][2].status = "INFO"
    /\ Tag_1_0_0 \in DOMAIN versions
    /\ Len(log[Tag_v1_1_0]) = 1
    /\ log[Tag_v1_1_0][1].status = "ERROR"
    /\ calls[Tag_v1_1_0][Len(calls[Tag_v1_1_0])].op = "blob"


\* the request of get_token has been sent
AuthSent == probe.fn = "auth" /\ probe.at = "sent"

\* the request carries this Authorization header, or none
Carries(header) == probe.sent.headers = [Authorization |-> header]
CarriesNone == "Authorization" \notin DOMAIN probe.sent.headers

\* both explicit arguments are given and not empty
Explicit ==
    /\ probe.username \notin {None, Str("")}
    /\ probe.password \notin {None, Str("")}

\* C34: the token request carries a Basic Authorization header exactly when
\* credentials are configured. Explicit username and password, both given,
\* are sent whatever the service and the environment. Without them, the
\* request for the service registry.docker.io carries DOCKER_USERNAME and
\* DOCKER_PASSWORD when both are in the environment; the request for ghcr.io
\* carries user `token` and GITHUB_TOKEN, or GH_TOKEN when GITHUB_TOKEN is
\* unset or empty, when one of them is not empty; every other request
\* carries no Authorization header, whatever the environment holds.
C34_BasicWhenConfigured ==
    AuthSent =>
        LET env == probe.environ
            hub == env["DOCKER_USERNAME"] # None /\ env["DOCKER_PASSWORD"] # None
            github == env["GITHUB_TOKEN"] \notin {None, Str("")}
            gh == env["GH_TOKEN"] \notin {None, Str("")}
        IN  /\ probe.sent.service = probe.service
            /\ Explicit =>
                  Carries(Basic(probe.username.value, probe.password.value))
            /\ ~Explicit /\ probe.service = "registry.docker.io" =>
                  IF hub
                  THEN Carries(Basic(env["DOCKER_USERNAME"].value, env["DOCKER_PASSWORD"].value))
                  ELSE CarriesNone
            /\ ~Explicit /\ probe.service = "ghcr.io" =>
                  IF github THEN Carries(Basic("token", env["GITHUB_TOKEN"].value))
                  ELSE IF gh THEN Carries(Basic("token", env["GH_TOKEN"].value))
                  ELSE CarriesNone
            /\ ~Explicit /\ probe.service \notin {"registry.docker.io", "ghcr.io"} =>
                  CarriesNone

\* a request for a third service is sent without a header although the
\* environment holds the credentials of Docker Hub and a GitHub token
C34_Witness ==
    /\ AuthSent
    /\ probe.service = "quay.io"
    /\ probe.username = Str("user") /\ probe.password = None
    /\ probe.environ["DOCKER_USERNAME"] = Str("secret")
    /\ probe.environ["DOCKER_PASSWORD"] = Str("secret")
    /\ probe.environ["GITHUB_TOKEN"] = Str("secret")
    /\ CarriesNone


\* the attempts of the call that have been sent
Attempts == IF probe.fn = "retry" THEN DOMAIN probe.sent ELSE {}

\* attempt i was sent with the token cached at that moment, not expired
FreshAt(i) ==
    /\ probe.sent[i].bearer = probe.sent[i].cached.token
    /\ ~is_expired(probe.sent[i].cached, probe.sent[i].clock)

\* C35: every attempt of a retried call, the retried ones included, is sent
\* after a token check of its own: it carries the token the client holds at
\* that moment, and that token is not expired.
C35_RetryRefreshesToken == \A i \in Attempts : FreshAt(i)

\* the first attempt of a call is sent with the token the client holds, not
\* expired; every attempt carries the header of the first
C35_FirstAttemptFresh ==
    \A i \in Attempts :
        /\ i = 1 => FreshAt(i)
        /\ probe.sent[i].bearer = probe.sent[1].bearer


\* the manifest of tag t arrived and is a list without a linux/arm entry
NoneCompatible(t) ==
    /\ Good(t, 1)
    /\ calls[t][1].got.kind = "ManifestList"
    /\ ArmLinuxAt(calls[t][1].got) = {}

\* C36: when the manifest of a tag is a list without a linux/arm entry, the
\* count warning is logged, the task makes no further call (no second
\* manifest fetch, no blob fetch, no readme fetch) and ends with an error
\* entry as its last, and the tag is not in the version map; the step in
\* which this happens changes nothing of any other tag: neither its task,
\* its calls and its log, nor the version map.
C36_NoCompatibleEntry ==
    /\ [](\A t \in TagNames : NoneCompatible(t) =>
            /\ Len(calls[t]) = 1
            /\ pc[t] = "done"
            /\ log[t] = <<CountWarning(t), Error(t, "Failed to generate version")>>
            /\ t \notin DOMAIN versions)
    /\ [][\A t \in TagNames : (~NoneCompatible(t) /\ NoneCompatible(t)') =>
            /\ versions' = versions
            /\ \A u \in TagNames \ {t} :
                 /\ pc'[u] = pc[u] /\ ctx'[u] = ctx[u] /\ inflight'[u] = inflight[u]
                 /\ calls'[u] = calls[u] /\ log'[u] = log[u]]_vars

\* of two listed tags one has a list of a single windows entry and is
\* omitted, the other is recorded, inflate() has returned
C36_Witness ==
    /\ arg = None
    /\ listed = {Tag_1_0_0, Tag_v1_1_0}
    /\ NoneCompatible(Tag_v1_1_0)
    /\ Len(calls[Tag_v1_1_0][1].got.manifests) = 1
    /\ Len(log[Tag_v1_1_0]) = 2
    /\ DOMAIN versions = {Tag_1_0_0}
    /\ pc[Coord] = "done"


\* C37: every request of the registry client carries the bearer value of
\* the token the client holds when the request is built, the value the
\* token endpoint issued, under whichever of `token` and `access_token` the
\* endpoint supplied it.
C37_BearerOfCachedToken ==
    /\ [](\A c \in Callers :
            inflight[c].kind = "registry_request" =>
                /\ inflight[c].bearer.kind = "bearer"
                /\ inflight[c].bearer.n \in 1..issued)
    /\ [][\A c \in Callers :
            RequestBuilt(c) => inflight'[c].bearer = IssuedValue(token')]_vars


\* get_tags has ended on this body
TagsDecoded == probe.fn = "hub_tags" /\ probe.result # None

\* the names of the tags get_tags hands to inflate()
Returned ==
    IF probe.result.kind = "TagList"
    THEN {probe.result.results[i].name : i \in DOMAIN probe.result.results}
    ELSE {}

\* C38: a record of the Hub listing that cannot be built, for an image
\* status other than active and inactive, costs that tag only: get_tags
\* hands every tag whose own record is well formed to inflate().
C38_MalformedRecordIsolated ==
    TagsDecoded =>
        \A i \in DOMAIN probe.body :
            WellFormed(probe.body[i]) => probe.body[i].name \in Returned

\* get_tags returns every record of a listing all of whose records are
\* well formed, and raises on every other listing
C38_AllOrNothing ==
    TagsDecoded =>
        IF \A i \in DOMAIN probe.body : WellFormed(probe.body[i])
        THEN probe.result = [kind |-> "TagList", results |-> probe.body]
        ELSE probe.result.kind = "raise"


\* the readme of the version is settled
ReadmeDone == probe.fn = "readme" /\ probe.at = "done"

\* the url of the label: its pieces with the tag name in the place of every
\* placeholder
UrlOfLabel == Between(probe.pieces.pieces, probe.tag_name)

\* the GET was answered with 200 and text/plain
FetchedText ==
    /\ probe.answer # None
    /\ probe.answer.kind = "response"
    /\ probe.answer.status = 200
    /\ probe.answer.content_type = "text/plain"

\* C39: the readme of a version is settled without an exception. Without a
\* readme label no fetch is made and the readme is None. With a label, the
\* only url fetched is the label with the tag name in the place of each
\* literal {tag}; a url that does not start with http is not fetched; when
\* the fetch fails (such a url, no answer, a status other than 200, a
\* content type other than text/plain) the readme is 'No README available'
\* and one warning is logged; when post-processing fails the readme is the
\* text as fetched, with one warning; else it is the processed text.
C39_ReadmeNeverFails ==
    /\ probe.fn = "readme" =>
          /\ probe.warnings <= 1
          /\ \A i \in DOMAIN probe.fetched : probe.fetched[i] = UrlOfLabel
          /\ Len(probe.fetched) <= 1
    /\ ReadmeDone =>
          IF probe.label = None
          THEN probe.fetched = << >> /\ probe.readme = None /\ probe.warnings = 0
          ELSE IF Len(UrlOfLabel) < 4 \/ SubSeq(UrlOfLabel, 1, 4) # <<"h", "t", "t", "p">>
          THEN /\ probe.fetched = << >>
               /\ probe.readme = Str("No README available")
               /\ probe.warnings = 1
          ELSE /\ probe.fetched = <<UrlOfLabel>>
               /\ IF ~FetchedText
                  THEN probe.readme = Str("No README available") /\ probe.warnings = 1
                  ELSE IF probe.processed = Str("raise")
                  THEN probe.readme = Str("fetched text") /\ probe.warnings = 1
                  ELSE probe.readme = Str("processed text") /\ probe.warnings = 0

\* the label {tag}/R{tag} of the tag named http: the url http/Rhttp is
\* fetched and answered with 404
C39_Witness ==
    /\ ReadmeDone
    /\ probe.label = Text(<<"{", "t", "a", "g", "}", "/", "R", "{", "t", "a", "g", "}">>)
    /\ probe.tag_name = <<"h", "t", "t", "p">>
    /\ probe.fetched = <<<<"h", "t", "t", "p", "/", "R", "h", "t", "t", "p">>>>
    /\ probe.answer.kind = "response" /\ probe.answer.status = 404
    /\ probe.readme = Str("No README available")

=============================================================================
